---- MODULE Spec2Model ----
(***************************************************************************)
(* MuseVoice audio pipeline: the buffered Opus frame encoder (opus.rs) and *)
(* the WebM muxer that wraps it (webm.rs).                                 *)
(*                                                                         *)
(* The native codec is an external collaborator.  Its behaviour within one *)
(* session is fixed by three values chosen in Init: the length it returns  *)
(* for an all-zero frame (silence_len; 2 is the near-silence marker that   *)
(* the encoder drops), the index of the opus_encode call that fails        *)
(* (fail_at, 0 for none), and the input signal (stream).  The callers push *)
(* the signal in chunks of any of PushSizes / WebmPushSizes.               *)
(***************************************************************************)
EXTENDS Integers, Sequences, FiniteSets, TLC

VARIABLES
    stream,       \* the session's input signal (one of Streams)
    silence_len,  \* codec: encoded length of an all-zero frame
    fail_at,      \* codec: index of the opus_encode call that fails, 0 = none
    encoder,      \* a stand-alone BufferedOpusEncoder
    writer,       \* a WebmWriter (owns its own BufferedOpusEncoder)
    output,       \* result of WebmWriter::finalize; ret is "None" while the writer is alive
    pushed,       \* number of samples of the signal pushed so far
    taken,        \* every frame returned by take_frames so far, in order
    last,         \* the last call: operation, result, state before it
    hist,         \* what kinds of calls were made so far
    ncalls,       \* number of calls made on the stand-alone encoder
    native,       \* the stand-alone encoder's native handle and its owner
    proc,         \* an AudioStreamProcessor; its webm_writer field is `writer`
    plast,        \* the last call on the processor
    ebml,         \* an EbmlBuilder and the last call made on it
    lookahead,    \* codec: its answer to OPUS_GET_LOOKAHEAD
    manager,      \* the FlowManager
    flows,        \* every Flow created so far, by number
    tasks,        \* tasks spawned by callbacks and by the shortcut handler, not yet run
    rec           \* the threads and channels of one record_audio call

core_vars == <<stream, silence_len, fail_at, encoder, writer, output, pushed, taken,
               last, hist, ncalls, native, proc, plast, ebml, lookahead>>

vars == <<core_vars, manager, flows, tasks, rec>>

(***************************************************************************)
(* Program constants                                                       *)
(***************************************************************************)
FRAME_SIZE == 960
SAMPLE_RATE == 48000
FRAME_DURATION_MS == 20
CLUSTER_DURATION_MS == 1000

(***************************************************************************)
(* Bounds of the model                                                     *)
(***************************************************************************)
MaxCalls == 3            \* calls on the stand-alone encoder
MaxFailAt == 2           \* the failing opus_encode call is one of the first MaxFailAt
MaxWebmFrames == 104     \* signal length pushed into the writer, in frames
MaxProcSamples == 1500   \* signal length pushed into the processor, in samples
MaxHeld == 5             \* no-input resampler calls that can still yield samples
MaxEbmlCalls == 2        \* calls on one EbmlBuilder
MaxHeadFrames == 3       \* signal length of a short writer session, in frames
MaxE2ESamples == 24000   \* one second at 24 kHz, the input of the end-to-end session
MaxTurns == 4            \* turns of the push_samples loop that chunks_processed counts
MaxTurnSamples == 8      \* signal length pushed turn by turn, in samples
MaxFlows == 2            \* flows created in one run of the application
MaxPresses == 2          \* presses of the global shortcut
MaxBuffers == 2          \* sample buffers the audio callback delivers in one recording
MaxTestCalls == 4        \* pushes of the irregular-chunks session
MaxChildLen == 127       \* bytes in a child builder: the first length of a 2-byte size

PushSizes == {100, 500, 960, 1920}
WebmPushSizes == {480, 960, 9600}
Streams == {"tone", "silence", "mixed"}
SilenceLens == {2, 3}
ProcPushSizes == {300, 480, 1000}
ProcChunkSizes == {480, 512}
ProcInputRates == {24000, 48000}
HeldChoices == {0, 2, MaxHeld}
ResamplerFailAt == {0, 3}

(***************************************************************************)
(* Input signal: sample p (1-based) of signal s, in the i16 domain.        *)
(* "mixed" is a tone with digital silence over frames 2 and 3.             *)
(***************************************************************************)
Sample(s, p) ==
    CASE s = "silence" -> 0
      [] s = "tone"    -> (p % 1000) + 1
      [] s = "mixed"   -> IF p > 960 /\ p <= 2880 THEN 0 ELSE (p % 1000) + 1

Chunk(s, from, n) == [i \in 1..n |-> Sample(s, from + i)]

AllZero(frame) == \A i \in 1..Len(frame) : frame[i] = 0

(***************************************************************************)
(* Fixed-width arithmetic.  The u32 millisecond counters stay far below    *)
(* 2^32 within the bounds of the model (2^32 ms is 49 days of audio), so   *)
(* they are plain integers here; the cast to i16 is modelled.              *)
(***************************************************************************)
ToI16(x) == LET y == x % 65536 IN IF y >= 32768 THEN y - 65536 ELSE y

(***************************************************************************)
(* Native codec: opus_encode(handle, frame, FRAME_SIZE, packet_buffer,     *)
(* max).  k is the index of the call on this handle.  Returns the encoded  *)
(* length (160 bytes is 20 ms at 64 kbit/s), negative for an error code.   *)
(***************************************************************************)
opus_encode(frame, k) ==
    IF k = fail_at THEN -3
    ELSE IF AllZero(frame) THEN silence_len
    ELSE 160

\* packet_buffer[..encoded_len]: the packet's length and, standing for its
\* bytes, the first and last sample of the frame it encodes.
Packet(frame, encoded_len) ==
    [len |-> encoded_len, first |-> frame[1], last |-> frame[FRAME_SIZE]]

\* what the codec handle has been given: one entry per opus_encode call
LogEntry(frame, encoded_len) ==
    [first |-> frame[1], last |-> frame[FRAME_SIZE], encoded_len |-> encoded_len]

(***************************************************************************)
(* BufferedOpusEncoder                                                     *)
(***************************************************************************)
NewEncoder == [sample_buffer |-> <<>>, encoded_frames |-> <<>>, codec_log |-> <<>>]

\* opus.rs:229: store the encoded frame unless it is a DTX frame
StoreFrameOver3(encoded_len) == encoded_len > 3

StoreFrame(encoded_len) == encoded_len > 2

\* opus.rs:293: the same rule on the padded frame of finalize
StoreFinalFrameAlways(encoded_len) == encoded_len >= 0

StoreFinalFrame(encoded_len) == encoded_len > 2

\* opus.rs:209: while self.sample_buffer.len() >= FRAME_SIZE
HasFullFrameOffByOne(buf) == Len(buf) > FRAME_SIZE

HasFullFrame(buf) == Len(buf) >= FRAME_SIZE

\* the buffer cleared instead of drained by one frame
DrainRestNothing(buf) == <<>>

\* opus.rs:211: sample_buffer.drain(..FRAME_SIZE)
DrainRest(buf) == SubSeq(buf, FRAME_SIZE + 1, Len(buf))

\* opus.rs:209-233: the while loop of add_samples
RECURSIVE EncodeFrames(_)
EncodeFrames(e) ==
    IF ~HasFullFrame(e.sample_buffer)
    THEN [enc |-> e, ret |-> "Ok"]
    ELSE LET frame == SubSeq(e.sample_buffer, 1, FRAME_SIZE)
             encoded_len == opus_encode(frame, Len(e.codec_log) + 1)
             drained == [e EXCEPT !.sample_buffer = DrainRest(e.sample_buffer),
                                  !.codec_log = Append(@, LogEntry(frame, encoded_len))]
         IN IF encoded_len < 0
            THEN [enc |-> drained, ret |-> "Err"]
            ELSE IF StoreFrame(encoded_len)
                 THEN EncodeFrames([drained EXCEPT !.encoded_frames =
                                        Append(@, Packet(frame, encoded_len))])
                 ELSE EncodeFrames(drained)

\* EncodeFrames after the samples REPLACE the buffer instead of extending it
add_samples_overwriting(e, samples) ==
    EncodeFrames([e EXCEPT !.sample_buffer = samples])

add_samples(e, samples) ==
    EncodeFrames([e EXCEPT !.sample_buffer = @ \o samples])

\* Vec::resize(n, 0): truncate or pad with zeros
Resize(buf, n) ==
    IF Len(buf) >= n THEN SubSeq(buf, 1, n)
    ELSE buf \o [i \in 1..(n - Len(buf)) |-> 0]

silent_frame == [i \in 1..FRAME_SIZE |-> 0]

\* opus.rs:273-300: the padded final frame
FinalizePadded(e) ==
    IF e.sample_buffer = <<>>
    THEN [enc |-> e, ret |-> "Ok"]
    ELSE LET buf == Resize(e.sample_buffer, FRAME_SIZE)
             encoded_len == opus_encode(buf, Len(e.codec_log) + 1)
             e1 == [e EXCEPT !.sample_buffer = buf,
                             !.codec_log = Append(@, LogEntry(buf, encoded_len))]
         IN IF encoded_len < 0
            THEN [enc |-> e1, ret |-> "Err"]
            ELSE [enc |-> [e1 EXCEPT
                             !.encoded_frames =
                                 IF StoreFinalFrame(encoded_len)
                                 THEN Append(@, Packet(buf, encoded_len)) ELSE @,
                             !.sample_buffer = <<>>],
                  ret |-> "Ok"]

\* finalize with a single silent flush frame
finalize_one_flush(e) ==
    LET p == FinalizePadded(e)
    IN IF p.ret = "Err" THEN p ELSE add_samples(p.enc, silent_frame)

finalize(e) ==
    LET p == FinalizePadded(e)
    IN IF p.ret = "Err" THEN p
       ELSE LET s1 == add_samples(p.enc, silent_frame)
            IN IF s1.ret = "Err" THEN s1
               ELSE add_samples(s1.enc, silent_frame)

\* take_frames that clones the queue and leaves it in place
take_frames_cloning(e) == [enc |-> e, frames |-> e.encoded_frames]

\* std::mem::take(&mut self.encoded_frames)
take_frames(e) ==
    [enc |-> [e EXCEPT !.encoded_frames = <<>>], frames |-> e.encoded_frames]

frame_count(e) == Len(e.encoded_frames)
buffered_samples(e) == Len(e.sample_buffer)

(***************************************************************************)
(* EbmlBuilder, as far as the muxer's control flow reads it: the open      *)
(* cluster buffer is the Timestamp element followed by SimpleBlocks, and   *)
(* len() is its length in bytes.                                           *)
(***************************************************************************)
\* ebml.rs:60-124: number of bytes vint(val, disallow_all_ones) appends
\* (widths 1..4 cover every value of the model)
VintWidth(val, shift) ==
    IF val < 128 - shift THEN 1
    ELSE IF val < 16384 - shift THEN 2
    ELSE IF val < 2097152 - shift THEN 3
    ELSE 4

\* u1(SIMPLE_BLOCK).size(4 + n).u1(0x81).u2(offset).u1(0x80).bytes(data)
BlockLen(b) == 1 + VintWidth(4 + b.data.len, 1) + 1 + 2 + 1 + b.data.len

RECURSIVE BlocksLen(_)
BlocksLen(blocks) ==
    IF blocks = <<>> THEN 0 ELSE BlockLen(Head(blocks)) + BlocksLen(Tail(blocks))

\* u1(TIMESTAMP).size(4).u4(ts) followed by the blocks
BuilderLen(c) == 1 + VintWidth(4, 1) + 4 + BlocksLen(c.blocks)

(***************************************************************************)
(* EbmlBuilder byte by byte (ebml.rs).  A builder is its data, a sequence  *)
(* of bytes.  A u64 is held in three limbs of 16, 24 and 24 bits:          *)
(* val = hi * 2^48 + mid * 2^24 + lo.                                      *)
(***************************************************************************)
U64(hi, mid, lo) == [hi |-> hi, mid |-> mid, lo |-> lo]

\* `n as u64` for a length or count n
FromInt(n) == U64(0, n \div 2^24, n % 2^24)

\* a < b on u64
Lt64(a, b) ==
    \/ a.hi < b.hi
    \/ a.hi = b.hi /\ a.mid < b.mid
    \/ a.hi = b.hi /\ a.mid = b.mid /\ a.lo < b.lo

\* 1 << k, for k < 64
Shl1(k) ==
    IF k < 24 THEN U64(0, 0, 2^k)
    ELSE IF k < 48 THEN U64(0, 2^(k - 24), 0)
    ELSE U64(2^(k - 48), 0, 0)

\* a - shift for shift in {0, 1} and a > 0
Sub64(a, shift) ==
    IF shift = 0 THEN a
    ELSE IF a.lo > 0 THEN U64(a.hi, a.mid, a.lo - 1)
    ELSE IF a.mid > 0 THEN U64(a.hi, a.mid - 1, 2^24 - 1)
    ELSE U64(a.hi - 1, 2^24 - 1, 2^24 - 1)

\* ((val >> k) & 0xff) as u8 and (val >> k) as u8, for k a multiple of 8
ByteAt(val, k) ==
    IF k < 24 THEN (val.lo \div 2^k) % 256
    ELSE IF k < 48 THEN (val.mid \div 2^(k - 24)) % 256
    ELSE (val.hi \div 2^(k - 48)) % 256

\* the low n bytes of val, least significant byte first
ValueBytesLittleEndian(val, n) == [i \in 1..n |-> ByteAt(val, 8 * (i - 1))]

\* ebml.rs:70, 75-76, ..., 115-121: the low n bytes of val, most significant
\* byte first
ValueBytes(val, n) == [i \in 1..n |-> ByteAt(val, 8 * (n - i))]

\* ebml.rs:65, 69, ..., 104: marker | ((val >> k) as u8 & (marker - 1))
LengthByte(marker, val, k) == marker + (ByteAt(val, k) % marker)

\* vint that wraps a value of more than 56 bits into the 8-byte form
vint_truncating(data, val, disallow_all_ones) ==
    LET shift == IF disallow_all_ones THEN 1 ELSE 0
        fits(k) == Lt64(val, Sub64(Shl1(k), shift))
    IN  IF fits(7) THEN [data |-> data \o <<LengthByte(128, val, 0)>>, ret |-> "Ok"]
        ELSE IF fits(14) THEN [data |-> data \o <<LengthByte(64, val, 8)>> \o ValueBytes(val, 1), ret |-> "Ok"]
        ELSE IF fits(21) THEN [data |-> data \o <<LengthByte(32, val, 16)>> \o ValueBytes(val, 2), ret |-> "Ok"]
        ELSE IF fits(28) THEN [data |-> data \o <<LengthByte(16, val, 24)>> \o ValueBytes(val, 3), ret |-> "Ok"]
        ELSE IF fits(35) THEN [data |-> data \o <<LengthByte(8, val, 32)>> \o ValueBytes(val, 4), ret |-> "Ok"]
        ELSE IF fits(42) THEN [data |-> data \o <<LengthByte(4, val, 40)>> \o ValueBytes(val, 5), ret |-> "Ok"]
        ELSE IF fits(49) THEN [data |-> data \o <<LengthByte(2, val, 48)>> \o ValueBytes(val, 6), ret |-> "Ok"]
        ELSE [data |-> data \o <<1>> \o ValueBytes(val, 7), ret |-> "Ok"]

\* ebml.rs:60-127.  ret is "panic" when the value is beyond the 8-byte form:
\* the panic is raised before any byte is pushed
vint(data, val, disallow_all_ones) ==
    LET shift == IF disallow_all_ones THEN 1 ELSE 0
        fits(k) == Lt64(val, Sub64(Shl1(k), shift))
    IN  IF fits(7) THEN [data |-> data \o <<LengthByte(128, val, 0)>>, ret |-> "Ok"]
        ELSE IF fits(14) THEN [data |-> data \o <<LengthByte(64, val, 8)>> \o ValueBytes(val, 1), ret |-> "Ok"]
        ELSE IF fits(21) THEN [data |-> data \o <<LengthByte(32, val, 16)>> \o ValueBytes(val, 2), ret |-> "Ok"]
        ELSE IF fits(28) THEN [data |-> data \o <<LengthByte(16, val, 24)>> \o ValueBytes(val, 3), ret |-> "Ok"]
        ELSE IF fits(35) THEN [data |-> data \o <<LengthByte(8, val, 32)>> \o ValueBytes(val, 4), ret |-> "Ok"]
        ELSE IF fits(42) THEN [data |-> data \o <<LengthByte(4, val, 40)>> \o ValueBytes(val, 5), ret |-> "Ok"]
        ELSE IF fits(49) THEN [data |-> data \o <<LengthByte(2, val, 48)>> \o ValueBytes(val, 6), ret |-> "Ok"]
        ELSE IF fits(56) THEN [data |-> data \o <<1>> \o ValueBytes(val, 7), ret |-> "Ok"]
        ELSE [data |-> data, ret |-> "panic"]

\* size that lets the all-ones pattern through
size_allowing_all_ones(data, val) == vint(data, val, FALSE)

\* ebml.rs:132-134
size(data, val) == vint(data, val, TRUE)

\* ebml.rs:137-140
u1(data, val) == Append(data, val)

\* ebml.rs:143-147
u2(data, val) == data \o <<(val \div 256) % 256, val % 256>>

\* ebml.rs:150-156
u4(data, val) == data \o ValueBytes(val, 4)

\* ebml.rs:159-169
u8(data, val) == data \o ValueBytes(val, 8)

\* ebml.rs:184-187
bytes(data, more) == data \o more

\* payload that writes the child without its size
payload_unsized(data, child) == [data |-> bytes(data, child), ret |-> "Ok"]

\* ebml.rs:192-196
payload(data, child) ==
    LET s == size(data, FromInt(Len(child)))
    IN  IF s.ret = "panic" THEN s ELSE [data |-> bytes(s.data, child), ret |-> "Ok"]

RECURSIVE TotalSize(_)
TotalSize(children) ==
    IF children = <<>> THEN 0 ELSE Len(Head(children)) + TotalSize(Tail(children))

RECURSIVE AllBytes(_)
AllBytes(children) ==
    IF children = <<>> THEN <<>> ELSE Head(children) \o AllBytes(Tail(children))

\* payload_multiple that sizes the element by its first child only
payload_multiple_first_size(data, children) ==
    LET s == size(data, FromInt(IF children = <<>> THEN 0 ELSE Len(Head(children))))
    IN  [data |-> bytes(s.data, AllBytes(children)), ret |-> "Ok"]

\* ebml.rs:202-209
payload_multiple(data, children) ==
    LET s == size(data, FromInt(TotalSize(children)))
    IN  IF s.ret = "panic" THEN s ELSE [data |-> bytes(s.data, AllBytes(children)), ret |-> "Ok"]

\* ebml.rs:36-40
EbmlBuilder_new == <<>>

(***************************************************************************)
(* WebmWriter                                                              *)
(***************************************************************************)
\* init_cluster writing a zero Timestamp whatever the cluster's start
InitClusterAtZero(cluster_start_timestamp_ms) ==
    [timestamp |-> 0, blocks |-> <<>>]

\* webm.rs:157-163
InitCluster(cluster_start_timestamp_ms) ==
    [timestamp |-> cluster_start_timestamp_ms, blocks |-> <<>>]

NewWriter ==
    [encoder |-> NewEncoder,
     completed_clusters |-> <<>>,
     current_cluster_blocks |-> InitCluster(0),
     current_timestamp_ms |-> 0,
     cluster_start_timestamp_ms |-> 0,
     total_samples_encoded |-> 0,
     finalized |-> FALSE]

\* flush_cluster that opens the next cluster without moving its start
FlushClusterKeepingStart(w) ==
    [w EXCEPT !.completed_clusters = Append(@, w.current_cluster_blocks),
              !.current_cluster_blocks = InitCluster(w.cluster_start_timestamp_ms)]

\* webm.rs:250-263: the open cluster becomes a completed Cluster element
FlushCluster(w) ==
    [w EXCEPT !.completed_clusters = Append(@, w.current_cluster_blocks),
              !.cluster_start_timestamp_ms = w.current_timestamp_ms,
              !.current_cluster_blocks = InitCluster(w.current_timestamp_ms)]

\* the cluster threshold tested with > instead of >=
ClusterFullLate(w) ==
    w.current_timestamp_ms > w.cluster_start_timestamp_ms + CLUSTER_DURATION_MS

\* webm.rs:242
ClusterFull(w) ==
    w.current_timestamp_ms >= w.cluster_start_timestamp_ms + CLUSTER_DURATION_MS

\* write_opus_frame that advances the timestamp but not the sample count
WriteOpusFrameNotCounting(w, opus_data) ==
    LET rel == w.current_timestamp_ms - w.cluster_start_timestamp_ms
        block == [track |-> 1, rel_ms |-> rel, timestamp_offset |-> ToI16(rel),
                  flags |-> 128, data |-> opus_data]
        w1 == [w EXCEPT !.current_cluster_blocks.blocks = Append(@, block),
                        !.current_timestamp_ms = @ + FRAME_DURATION_MS]
    IN IF ClusterFull(w1) THEN FlushCluster(w1) ELSE w1

\* webm.rs:219-247.  rel_ms is the u32 difference before the cast to i16;
\* timestamp_offset is the signed value the two bytes of the block hold.
WriteOpusFrame(w, opus_data) ==
    LET rel == w.current_timestamp_ms - w.cluster_start_timestamp_ms
        block == [track |-> 1, rel_ms |-> rel, timestamp_offset |-> ToI16(rel),
                  flags |-> 128, data |-> opus_data]
        w1 == [w EXCEPT !.current_cluster_blocks.blocks = Append(@, block),
                        !.current_timestamp_ms = @ + FRAME_DURATION_MS,
                        !.total_samples_encoded = @ + 960]
    IN IF ClusterFull(w1) THEN FlushCluster(w1) ELSE w1

\* a loop that writes the first frame of the batch and forgets the others
WriteFramesFirstOnly(w, frames) ==
    IF frames = <<>> THEN w ELSE WriteOpusFrame(w, Head(frames))

\* webm.rs:211-213: for frame in frames
RECURSIVE WriteFrames(_, _)
WriteFrames(w, frames) ==
    IF frames = <<>> THEN w
    ELSE WriteFrames(WriteOpusFrame(w, Head(frames)), Tail(frames))

\* process_encoded_frames reading the ready queue without taking it
ProcessEncodedFramesPeeking(w) == WriteFrames(w, w.encoder.encoded_frames)

\* webm.rs:204-216
ProcessEncodedFrames(w) ==
    LET t == take_frames(w.encoder)
    IN WriteFrames([w EXCEPT !.encoder = t.enc], t.frames)

\* add_samples that muxes the frames encoded before an encode error
WebmWriter_add_samples_muxing_on_error(w, samples) ==
    IF w.finalized THEN [w |-> w, ret |-> "Err", err |-> "WebmError"]
    ELSE LET r == add_samples(w.encoder, samples)
             w1 == ProcessEncodedFrames([w EXCEPT !.encoder = r.enc])
         IN [w |-> w1, ret |-> r.ret,
             err |-> IF r.ret = "Err" THEN "Codec" ELSE "None"]

\* webm.rs:172-181
WebmWriter_add_samples(w, samples) ==
    IF w.finalized THEN [w |-> w, ret |-> "Err", err |-> "WebmError"]
    ELSE LET r == add_samples(w.encoder, samples)
             w1 == [w EXCEPT !.encoder = r.enc]
         IN IF r.ret = "Err" THEN [w |-> w1, ret |-> "Err", err |-> "Codec"]
            ELSE [w |-> ProcessEncodedFrames(w1), ret |-> "Ok", err |-> "None"]

\* libopus's answer to OPUS_GET_LOOKAHEAD at 48 kHz in audio mode
opus_lookahead == 312

\* opus.rs:318-333: the codec's answer, an i32
get_preskip(e) == lookahead

\* webm.rs:303-328, by element: the header, the Info and Tracks sections and
\* the completed clusters in order
BuildWebmFile(w, preskip, duration_ms) ==
    [ebml_header |-> "webm",
     info |-> [timecode_scale |-> 1000000, duration_ms |-> duration_ms],
     tracks |-> [preskip |-> preskip],
     clusters |-> w.completed_clusters]

\* finalize sealing the open cluster whatever it holds
ClusterHasContentAlways(w) == TRUE

\* webm.rs:284: the open cluster buffer holds more than the timestamp header
ClusterHasContent(w) == BuilderLen(w.current_cluster_blocks) > 7

\* finalize returning without setting the flag
MarkFinalizedNot(w) == w

\* webm.rs:297
MarkFinalized(w) == [w EXCEPT !.finalized = TRUE]

\* webm.rs:272-300.  err tells the OpusError variants apart: "WebmError" is
\* the guard's, "Codec" an error code of the native codec.
WebmWriter_finalize(w) ==
    IF w.finalized
    THEN [w |-> w, ret |-> "Err", err |-> "WebmError", webm |-> <<>>]
    ELSE LET r == finalize(w.encoder)
             w1 == [w EXCEPT !.encoder = r.enc]
         IN IF r.ret = "Err"
            THEN [w |-> w1, ret |-> "Err", err |-> "Codec", webm |-> <<>>]
            ELSE LET w2 == ProcessEncodedFrames(w1)
                     w3 == IF ClusterHasContent(w2)
                           THEN FlushCluster(w2) ELSE w2
                     preskip == get_preskip(w3.encoder) % 65536
                     duration_ms == (w3.total_samples_encoded * 1000) \div SAMPLE_RATE
                 IN [w |-> MarkFinalized(w3), ret |-> "Ok", err |-> "None",
                     webm |-> BuildWebmFile(w3, preskip, duration_ms)]

cluster_count(w) == Len(w.completed_clusters)

(***************************************************************************)
(* f32 samples are held in thousandths (1000 stands for 1.0); the input    *)
(* signal of a processor session is Sample read in that unit.              *)
(***************************************************************************)
\* opus.rs:251-256: clamp to [-1.0, 1.0], scale by 32767.0, truncate
F32ToI16(v) ==
    LET clamped == IF v > 1000 THEN 1000 ELSE IF v < -1000 THEN -1000 ELSE v
    IN IF clamped >= 0 THEN (clamped * 32767) \div 1000
       ELSE 0 - (((0 - clamped) * 32767) \div 1000)

\* opus.rs:248-260
add_samples_f32(e, samples) ==
    add_samples(e, [i \in 1..Len(samples) |-> F32ToI16(samples[i])])

\* webm.rs:192-201
WebmWriter_add_samples_f32(w, samples) ==
    IF w.finalized THEN [w |-> w, ret |-> "Err", err |-> "WebmError"]
    ELSE LET r == add_samples_f32(w.encoder, samples)
             w1 == [w EXCEPT !.encoder = r.enc]
         IN IF r.ret = "Err" THEN [w |-> w1, ret |-> "Err", err |-> "Codec"]
            ELSE [w |-> ProcessEncodedFrames(w1), ret |-> "Ok", err |-> "None"]

(***************************************************************************)
(* The resampler (rubato's SincFixedIn) is an external collaborator.  Its  *)
(* output for n input samples has n * target / input samples; `held` is    *)
(* the number of no-input calls that still yield samples from its delay    *)
(* line before one yields nothing, and fail_at the index of its call that  *)
(* returns an error (0 for none); both are fixed when it is constructed.   *)
(* present = FALSE is the None of bypass mode.                             *)
(***************************************************************************)
NoResampler == [present |-> FALSE, num |-> 1, den |-> 1, held |-> 0,
                fail_at |-> 0, calls |-> 0]

SincFixedIn_new(input_rate, target_rate, held, rs_fail_at) ==
    [present |-> TRUE, num |-> target_rate \div 1000, den |-> input_rate \div 1000,
     held |-> held, fail_at |-> rs_fail_at, calls |-> 0]

\* a resampler that hands its input back at the input rate
ResampledUnscaled(rs, input) == input

\* rubato: the output holds target/input samples per input sample
Resampled(rs, input) ==
    [j \in 1..((Len(input) * rs.num) \div rs.den) |->
        input[((j - 1) * rs.den) \div rs.num + 1]]

\* resampler.process(&input, None) and resampler.process_partial(Some(&input), None)
Resampler_process(rs, input) ==
    LET rs1 == [rs EXCEPT !.calls = @ + 1]
    IN IF rs1.calls = rs.fail_at
       THEN [rs |-> rs1, ret |-> "Err", out |-> <<>>]
       ELSE [rs |-> rs1, ret |-> "Ok", out |-> Resampled(rs, input)]

\* resampler.process_partial(None, None)
Resampler_flush(rs) ==
    LET rs1 == [rs EXCEPT !.calls = @ + 1]
    IN IF rs1.calls = rs.fail_at
       THEN [rs |-> rs1, ret |-> "Err", out |-> <<>>]
       ELSE IF rs.held > 0
       THEN [rs |-> [rs1 EXCEPT !.held = @ - 1], ret |-> "Ok",
             out |-> [j \in 1..rs.num |-> 0]]
       ELSE [rs |-> rs1, ret |-> "Ok", out |-> <<>>]

(***************************************************************************)
(* AudioStreamProcessor.  An operator on the processor takes and returns   *)
(* the pair s = [p |-> the processor, w |-> its webm_writer].  p.events    *)
(* lists what the processor asked of its collaborators, in order, and      *)
(* p.forwarded is the concatenation of the slices it gave the muxer.       *)
(***************************************************************************)
FLUSH_CALLS == 4

\* stream_processor.rs:39-87
AudioStreamProcessor_new(input_sample_rate, target_sample_rate, resampler_chunk_size, held, rs_fail_at) ==
    [resampler |-> IF input_sample_rate = target_sample_rate THEN NoResampler
                   ELSE SincFixedIn_new(input_sample_rate, target_sample_rate,
                                        held, rs_fail_at),
     input_buffer |-> <<>>,
     resampler_chunk_size |-> resampler_chunk_size,
     input_sample_rate |-> input_sample_rate,
     target_sample_rate |-> target_sample_rate,
     samples_received |-> 0,
     samples_resampled |-> 0,
     chunks_processed |-> 0,
     events |-> <<>>,
     forwarded |-> <<>>]

\* F(v), with v evaluated once and then named
Eval(v, F(_)) == CHOOSE y \in {F(x) : x \in {v}} : TRUE

Event(s, ev, n) == [s EXCEPT !.p.events = Append(@, [ev |-> ev, n |-> n])]

\* self.samples_resampled += output_size; self.webm_writer.add_samples_f32(..)?
Forward(s, samples) ==
    Eval(WebmWriter_add_samples_f32(s.w, samples), LAMBDA r :
        [s |-> Event([s EXCEPT !.p.samples_resampled = @ + Len(samples),
                               !.p.forwarded = @ \o samples,
                               !.w = r.w],
                     "forward", Len(samples)),
         ret |-> r.ret])

\* the end of process_chunk: `?` on the muxer's result, then
\* self.chunks_processed += 1
ChunkDone(f) ==
    IF f.ret = "Err" THEN f
    ELSE [s |-> [f.s EXCEPT !.p.chunks_processed = @ + 1], ret |-> "Ok"]

\* stream_processor.rs:111-150
process_chunk(s, chunk) ==
    IF s.p.resampler.present
    THEN Eval(Resampler_process(s.p.resampler, chunk), LAMBDA o :
             Eval(Event([s EXCEPT !.p.resampler = o.rs], "process", Len(chunk)),
                  LAMBDA s1 :
                      IF o.ret = "Err" THEN [s |-> s1, ret |-> "Err"]
                      ELSE Eval(Forward(s1, o.out), ChunkDone)))
    ELSE Eval(Forward(s, chunk), ChunkDone)

\* the loop condition of push_samples tested with > instead of >=
HasFullChunkOffByOne(p) == Len(p.input_buffer) > p.resampler_chunk_size

\* stream_processor.rs:101
HasFullChunk(p) == Len(p.input_buffer) >= p.resampler_chunk_size

\* stream_processor.rs:101-105: the while loop of push_samples
RECURSIVE ProcessChunks(_, _)
ProcessChunks(s, processed) ==
    IF ~HasFullChunk(s.p)
    THEN [s |-> s, ret |-> "Ok", value |-> processed]
    ELSE LET chunk_size == s.p.resampler_chunk_size
             chunk == SubSeq(s.p.input_buffer, 1, chunk_size)
             s1 == [s EXCEPT !.p.input_buffer = SubSeq(@, chunk_size + 1, Len(@))]
         IN Eval(process_chunk(s1, chunk), LAMBDA r :
                IF r.ret = "Err" THEN [s |-> r.s, ret |-> "Err", value |-> 0]
                ELSE ProcessChunks(r.s, processed + chunk_size))

\* push_samples that leaves samples_received alone
push_samples_uncounted(s, samples) ==
    Eval([s EXCEPT !.p.input_buffer = @ \o samples],
         LAMBDA s1 : ProcessChunks(s1, 0))

\* stream_processor.rs:93-108
push_samples(s, samples) ==
    Eval([s EXCEPT !.p.samples_received = @ + Len(samples),
                   !.p.input_buffer = @ \o samples],
         LAMBDA s1 : ProcessChunks(s1, 0))

\* a finalize that goes to the drain calls without the pending remainder
FinalPartialSkipping(s) == [s |-> s, ret |-> "Ok"]

\* stream_processor.rs:166-191: the pending remainder, resampling mode
FinalPartial(s) ==
    IF s.p.input_buffer = <<>> THEN [s |-> s, ret |-> "Ok"]
    ELSE Eval(Resampler_process(s.p.resampler, s.p.input_buffer), LAMBDA o :
             Eval(Event([s EXCEPT !.p.resampler = o.rs],
                        "process_partial", Len(s.p.input_buffer)),
                  LAMBDA s1 :
                      IF o.ret = "Err" THEN [s |-> s1, ret |-> "Err"]
                      ELSE Eval(Forward(s1, o.out), ChunkDone)))

\* stream_processor.rs:194-210: for _ in 0..4, with i calls still allowed
RECURSIVE FlushDelayed(_, _)
FlushDelayed(s, i) ==
    IF i = 0 THEN [s |-> s, ret |-> "Ok"]
    ELSE Eval(Resampler_flush(s.p.resampler), LAMBDA o :
             Eval(Event([s EXCEPT !.p.resampler = o.rs], "flush", Len(o.out)),
                  LAMBDA s1 :
                      IF o.ret = "Err" THEN [s |-> s1, ret |-> "Err"]
                      ELSE IF o.out = <<>> THEN [s |-> s1, ret |-> "Ok"]
                      ELSE Eval(Forward(s1, o.out), LAMBDA f :
                               IF f.ret = "Err" THEN f
                               ELSE FlushDelayed(f.s, i - 1))))

\* a bypass finalize that leaves the pending remainder behind
FinalPassthroughDropping(s) == [s |-> s, ret |-> "Ok"]

\* stream_processor.rs:212-223: the pending remainder, bypass mode
FinalPassthrough(s) ==
    IF s.p.input_buffer = <<>> THEN [s |-> s, ret |-> "Ok"]
    ELSE Eval(Forward(s, s.p.input_buffer), ChunkDone)

\* a finalize that runs the drain calls in bypass mode as well
FinalizeRemainingDraining(s) ==
    Eval(IF s.p.resampler.present THEN FinalPartial(s) ELSE FinalPassthrough(s),
         LAMBDA r : IF r.ret = "Err" THEN r ELSE FlushDelayed(r.s, FLUSH_CALLS))

\* stream_processor.rs:164-224
FinalizeRemaining(s) ==
    IF s.p.resampler.present
    THEN Eval(FinalPartial(s), LAMBDA r :
             IF r.ret = "Err" THEN r ELSE FlushDelayed(r.s, FLUSH_CALLS))
    ELSE FinalPassthrough(s)

\* stream_processor.rs:156-247
AudioStreamProcessor_finalize(s) ==
    Eval(FinalizeRemaining(s), LAMBDA r :
        IF r.ret = "Err" THEN [s |-> r.s, ret |-> "Err", webm |-> <<>>]
        ELSE Eval(WebmWriter_finalize(r.s.w), LAMBDA f :
                 [s |-> Event([r.s EXCEPT !.w = f.w], "webm_finalize", 0),
                  ret |-> f.ret, webm |-> f.webm]))

(***************************************************************************)
(* The file byte by byte (webm.rs:219-263, 303-449).  The finalize result  *)
(* of the model is the record BuildWebmFile returns; build_webm_file turns *)
(* it into the bytes the program returns.  Element ids are written in      *)
(* hexadecimal as in webm.rs:59-105; a u32 id is a u64 in limbs.           *)
(***************************************************************************)
\* size(n) for a length or a small literal, which never panics
size_of(data, n) == size(data, FromInt(n)).data

\* the bytes of an encoded frame: a fixed byte, then bytes that differ from
\* frame to frame
PacketBytes(p) == [i \in 1..p.len |-> IF i = 1 THEN 120 ELSE (p.first + p.last + i) % 256]

\* webm.rs:229-235: one SimpleBlock
BlockBytes(b) ==
    bytes(u1(u2(u1(size_of(u1(<<>>, \hA3), 4 + b.data.len), \h81), b.timestamp_offset % 65536), \h80), PacketBytes(b.data))

RECURSIVE BlocksBytes(_, _, _)
BlocksBytes(blocks, from, to) ==
    IF from > to THEN <<>>
    ELSE IF from = to THEN BlockBytes(blocks[from])
    ELSE Eval((from + to) \div 2, LAMBDA m : BlocksBytes(blocks, from, m) \o BlocksBytes(blocks, m + 1, to))

\* webm.rs:157-163, 229-235: the open cluster buffer, the Timestamp element
\* followed by the blocks
ClusterBuffer(c) ==
    u4(size_of(u1(<<>>, \hE7), 4), FromInt(c.timestamp)) \o BlocksBytes(c.blocks, 1, Len(c.blocks))

\* webm.rs:252-255: a completed Cluster element
ClusterBytes(c) == payload(u4(<<>>, U64(0, \h1F, \h43B675)), ClusterBuffer(c)).data

\* f64::to_bits of a whole number 0 <= n < 2^28: sign 0, exponent 1023 + e
\* for 2^e <= n < 2^(e+1), and the 52 fraction bits
F64Bits(n) ==
    IF n = 0 THEN U64(0, 0, 0)
    ELSE LET e == CHOOSE k \in 0..27 : 2^k <= n /\ n < 2^(k + 1)
             frac == n - 2^e
         IN IF e <= 4 THEN U64((1023 + e) * 16 + frac * 2^(4 - e), 0, 0)
            ELSE U64((1023 + e) * 16 + frac \div 2^(e - 4), (frac % 2^(e - 4)) * 2^(28 - e), 0)

\* ebml.rs:178-181
f8(data, n) == u8(data, F64Bits(n))

\* webm.rs:331-343
build_ebml_header ==
    LET v1 == u1(size_of(u2(<<>>, \h4286), 1), 1)
        v2 == u1(size_of(u2(v1, \h42F7), 1), 1)
        v3 == u1(size_of(u2(v2, \h42F2), 1), 4)
        v4 == u1(size_of(u2(v3, \h42F3), 1), 8)
        v5 == bytes(size_of(u2(v4, \h4282), 4), <<119, 101, 98, 109>>)
        v6 == u1(size_of(u2(v5, \h4287), 1), 4)
    IN  u1(size_of(u2(v6, \h4285), 1), 2)

\* b"MuseVoice-0.1.0"
app_name == <<77, 117, 115, 101, 86, 111, 105, 99, 101, 45, 48, 46, 49, 46, 48>>

\* webm.rs:346-366.  duration_ms is a whole number of milliseconds:
\* (960 * k) as f64 / 48000.0 * 1000.0 is exactly 20 * k for every frame
\* count k of the model
build_segment_info(duration_ms) ==
    LET c1 == u4(size_of(bytes(<<>>, <<\h2A, \hD7, \hB1>>), 4), FromInt(1000000))
        c2 == f8(size_of(u2(c1, \h4489), 8), duration_ms)
        c3 == bytes(size_of(u2(c2, \h4D80), Len(app_name)), app_name)
        c4 == bytes(size_of(u2(c3, \h5741), Len(app_name)), app_name)
    IN  payload(u4(<<>>, U64(0, \h15, \h49A966)), c4).data

\* build_opus_head writing the pre-skip most significant byte first
build_opus_head_big_endian(preskip) ==
    <<79, 112, 117, 115, 72, 101, 97, 100>>
        \o <<1, 1>>
        \o <<(preskip \div 256) % 256, preskip % 256>>
        \o <<SAMPLE_RATE % 256, (SAMPLE_RATE \div 256) % 256, (SAMPLE_RATE \div 65536) % 256, (SAMPLE_RATE \div 16777216) % 256>>
        \o <<0, 0, 0>>

\* webm.rs:419-449
build_opus_head(preskip) ==
    <<79, 112, 117, 115, 72, 101, 97, 100>>
        \o <<1, 1>>
        \o <<preskip % 256, (preskip \div 256) % 256>>
        \o <<SAMPLE_RATE % 256, (SAMPLE_RATE \div 256) % 256, (SAMPLE_RATE \div 65536) % 256, (SAMPLE_RATE \div 16777216) % 256>>
        \o <<0, 0, 0>>

\* webm.rs:396: (preskip as u64) * 1_000_000_000 / SAMPLE_RATE, which is
\* preskip * 62500 / 3 rounded down
CodecDelay(preskip) == (preskip \div 3) * 62500 + ((preskip % 3) * 62500) \div 3

\* webm.rs:369-416
build_tracks(preskip) ==
    LET a1 == u1(size_of(u1(<<>>, \h9F), 1), 1)
        a2 == f8(size_of(u1(a1, \hB5), 8), SAMPLE_RATE)
        audio == u1(size_of(u2(a2, \h6264), 1), 16)
        opus_head == build_opus_head(preskip)
        t1 == u1(size_of(u1(<<>>, \hD7), 1), 1)
        t2 == u4(u4(size_of(u2(t1, \h73C5), 8), U64(0, \hDE, \hADBEEF)), U64(0, \h12, \h345678))
        t3 == u1(size_of(u1(t2, \h9C), 1), 0)
        t4 == bytes(size_of(bytes(t3, <<\h22, \hB5, \h9C>>), 3), <<101, 110, 103>>)
        t5 == bytes(size_of(u1(t4, \h86), 6), <<65, 95, 79, 80, 85, 83>>)
        t6 == u8(size_of(u2(t5, \h56AA), 8), FromInt(CodecDelay(preskip)))
        t7 == u4(size_of(u2(t6, \h56BB), 4), FromInt(80000000))
        t8 == u1(size_of(u1(t7, \h83), 1), 2)
        t9 == payload(u1(t8, \hE1), audio).data
        track_entry == bytes(size_of(u2(t9, \h63A2), Len(opus_head)), opus_head)
        track == payload(u1(<<>>, \hAE), track_entry).data
    IN  payload(u4(<<>>, U64(0, \h16, \h54AE6B)), track).data

RECURSIVE ClustersData(_, _)
ClustersData(clusters, i) ==
    IF i > Len(clusters) THEN <<>> ELSE ClusterBytes(clusters[i]) \o ClustersData(clusters, i + 1)

\* build_webm_file putting the clusters in front of the Tracks section
build_webm_file_clusters_first(f) ==
    LET segment_payload == bytes(bytes(bytes(<<>>, build_segment_info(f.info.duration_ms)), ClustersData(f.clusters, 1)), build_tracks(f.tracks.preskip))
        webm == payload(u4(<<>>, U64(0, \h1A, \h45DFA3)), build_ebml_header).data
    IN  payload(u4(webm, U64(0, \h18, \h538067)), segment_payload).data

\* webm.rs:303-328
build_webm_file(f) ==
    LET segment_payload == bytes(bytes(bytes(<<>>, build_segment_info(f.info.duration_ms)), build_tracks(f.tracks.preskip)), ClustersData(f.clusters, 1))
        webm == payload(u4(<<>>, U64(0, \h1A, \h45DFA3)), build_ebml_header).data
    IN  payload(u4(webm, U64(0, \h18, \h538067)), segment_payload).data

(***************************************************************************)
(* The native handle.  native.encoder is the pointer field of the          *)
(* BufferedOpusEncoder ("null" or "handle"), native.owner tells whether    *)
(* the Rust value exists ("none" before new, "live", "failed" when new     *)
(* returned Err, "dropped"), created and destroyed count the calls of      *)
(* opus_encoder_create that returned a handle and of opus_encoder_destroy. *)
(* opus_encoder_create returns a handle with *error = 0, or NULL (libopus  *)
(* frees the state it allocated when its initialisation fails).            *)
(***************************************************************************)
NoHandle == [owner |-> "none", encoder |-> "null", created |-> 0, destroyed |-> 0]

CreateOutcomes == {"handle", "null_with_error", "null"}
CtlResults == {0, -1}

opus_encoder_create(outcome) ==
    CASE outcome = "handle"          -> [encoder |-> "handle", error |-> 0]
      [] outcome = "null_with_error" -> [encoder |-> "null", error |-> -7]
      [] outcome = "null"            -> [encoder |-> "null", error |-> 0]

opus_encoder_destroy(nat) ==
    [nat EXCEPT !.destroyed = @ + 1, !.encoder = "freed"]

\* opus.rs:154-191
BufferedOpusEncoder_new(nat, outcome, ctl_result) ==
    LET c == opus_encoder_create(outcome)
        n1 == [nat EXCEPT !.created = IF c.encoder = "handle" THEN @ + 1 ELSE @]
    IN IF c.error # 0
       THEN [ret |-> "Err", native |-> [n1 EXCEPT !.owner = "failed"]]
       ELSE IF c.encoder = "null"
       THEN [ret |-> "Err", native |-> [n1 EXCEPT !.owner = "failed"]]
       ELSE IF ctl_result # 0
       THEN [ret |-> "Err",
             native |-> [opus_encoder_destroy(n1) EXCEPT !.owner = "failed"]]
       ELSE [ret |-> "Ok",
             native |-> [n1 EXCEPT !.owner = "live", !.encoder = c.encoder]]

\* a Drop that frees nothing
drop_forgetting(nat) == [nat EXCEPT !.owner = "dropped"]

\* opus.rs:401-409.  The value is gone afterwards; its pointer field keeps
\* the address of the freed state only in the model.
drop(nat) ==
    IF nat.encoder # "null"
    THEN [opus_encoder_destroy(nat) EXCEPT !.owner = "dropped"]
    ELSE [nat EXCEPT !.owner = "dropped"]

(***************************************************************************)
(* Record of the last call, and counters                                   *)
(***************************************************************************)
Call(op, ret, e, out) ==
    [op |-> op, ret |-> ret, prev |-> last.op,
     pre_buffered |-> buffered_samples(e), pre_frames |-> frame_count(e),
     out |-> out]

Count(op, ret) ==
    [hist EXCEPT !.errs = IF ret = "Err" THEN @ + 1 ELSE @,
                 !.after_err = @ \/ hist.errs > 0,
                 !.finals = IF op = "finalize" THEN @ + 1 ELSE @,
                 !.takes = IF op = "take_frames" THEN @ + 1 ELSE @]

NoHist == [errs |-> 0, after_err |-> FALSE, finals |-> 0, takes |-> 0]

\* the last call on the processor: its result, the length of its argument and
\* the lengths of input_buffer and events before it
NoCall == [op |-> "new", ret |-> "Ok", value |-> 0, len |-> 0,
           pre_pending |-> 0, pre_events |-> 0]

ProcCall(op, ret, value, len) ==
    [op |-> op, ret |-> ret, value |-> value, len |-> len,
     pre_pending |-> Len(proc.input_buffer), pre_events |-> Len(proc.events)]

(***************************************************************************)
(* Stand-alone encoder session                                             *)
(***************************************************************************)
EncAddSamples(n) ==
    /\ ncalls < MaxCalls
    /\ ncalls' = ncalls + 1
    /\ LET r == add_samples(encoder, Chunk(stream, pushed, n))
       IN /\ encoder' = r.enc
          /\ last' = Call("add_samples", r.ret, encoder, <<>>)
          /\ hist' = Count("add_samples", r.ret)
    /\ pushed' = pushed + n
    /\ UNCHANGED <<stream, silence_len, fail_at, writer, output, taken, native, proc, plast, ebml, lookahead, manager, flows, tasks, rec>>

EncFinalize ==
    /\ ncalls < MaxCalls
    /\ ncalls' = ncalls + 1
    /\ LET r == finalize(encoder)
       IN /\ encoder' = r.enc
          /\ last' = Call("finalize", r.ret, encoder, <<>>)
          /\ hist' = Count("finalize", r.ret)
    /\ UNCHANGED <<stream, silence_len, fail_at, writer, output, pushed, taken, native, proc, plast, ebml, lookahead, manager, flows, tasks, rec>>

EncTakeFrames ==
    /\ ncalls < MaxCalls
    /\ ncalls' = ncalls + 1
    /\ LET r == take_frames(encoder)
       IN /\ encoder' = r.enc
          /\ taken' = taken \o r.frames
          /\ last' = Call("take_frames", "Ok", encoder, r.frames)
          /\ hist' = Count("take_frames", "Ok")
    /\ UNCHANGED <<stream, silence_len, fail_at, writer, output, pushed, native, proc, plast, ebml, lookahead, manager, flows, tasks, rec>>

(***************************************************************************)
(* Builder session: calls on one EbmlBuilder, with values at and around    *)
(* the width boundaries of the vint encoding.  A panic ends the session.   *)
(***************************************************************************)
\* the model's record of the last call on the builder
EbmlCall(op, val, flag, children, prev, ret) == [op |-> op, val |-> val, flag |-> flag, children |-> children, prev |-> prev, ret |-> ret]

NoEbmlCall == EbmlCall("new", FromInt(0), FALSE, <<>>, <<>>, "Ok")

NewEbml == [data |-> EbmlBuilder_new, last |-> NoEbmlCall, calls |-> 0]

\* 2^(7w) - 2, 2^(7w) - 1 and 2^(7w) for every width w, and values inside
\* and beyond the representable range
VintValues ==
    UNION {{Sub64(Sub64(Shl1(7 * w), 1), 1), Sub64(Shl1(7 * w), 1), Shl1(7 * w)} : w \in 1..8}
      \cup {FromInt(0), FromInt(300), U64(163, 4548489, 11259375),
            Shl1(63), U64(65535, 2^24 - 1, 2^24 - 1)}

Fill(n) == [i \in 1..n |-> (i * 7) % 256]

Children == {<<>>, <<66, 67>>, Fill(MaxChildLen - 1), Fill(MaxChildLen)}

ChildLists == {<<>>} \cup {<<a>> : a \in Children} \cup {<<a, b>> : a, b \in Children}

(***************************************************************************)
(* The recording workflow: Flow (flow.rs) and FlowManager                  *)
(* (flow_manager.rs), driven by the commands and the global-shortcut       *)
(* handler of lib.rs.  Flows are numbered in the order of their creation;  *)
(* 0 stands for None.  An operator of this layer takes and returns the     *)
(* triple a = [manager, flows, tasks].  The manager's RwLock is not a      *)
(* variable: every section of code that holds it runs without waiting for  *)
(* anything but the lock, so each such section is one step.                *)
(*                                                                         *)
(* A flow's trace is the sequence of events it gave its callback (sample   *)
(* counts and waveform chunks left out); cancel_seen is the state the flow *)
(* was in when cancel() was first called on it, and retry_available the    *)
(* value of the last 'retry-available' event emitted for it.               *)
(***************************************************************************)
FlowState == {"Idle", "Recording", "Processing", "Completed", "Error", "Cancelled"}

Ended == {"Completed", "Error", "Cancelled"}

FlowEvent(ev, state) == [ev |-> ev, state |-> state]

\* a slot of `flows` that no flow has been created in
NoFlow ==
    [mode |-> "None", state |-> "Idle", pc |-> "none", cancelled |-> FALSE,
     stop |-> "none", rewrite_enabled |-> FALSE, trace |-> <<>>,
     cancel_seen |-> "None", retry_available |-> "none"]

\* flow.rs:111-122, then held by the task that start_flow or
\* retry_transcription spawns; stop is the oneshot channel of start_flow
Flow_new(mode, rewrite_enabled) ==
    [NoFlow EXCEPT !.mode = mode, !.pc = "spawned",
                   !.rewrite_enabled = rewrite_enabled,
                   !.stop = IF mode = "RecordAndTranscribe" THEN "open" ELSE "none"]

\* flow_manager.rs:55-71; shortcut is the last action of the shortcut
\* handler: what it called, the state it had read and the state at the call
FlowManager_new(rewrite_enabled) ==
    [current_flow |-> 0, stop_sender |-> 0, retry_audio_data |-> 0,
     rewrite_enabled |-> rewrite_enabled, created |-> 0, presses |-> 0,
     shortcut |-> [op |-> "none", seen |-> "Idle", actual |-> "Idle"]]

\* a task given to tokio::spawn by the callback or by the shortcut handler
Task(kind, of, seen) == [kind |-> kind, of |-> of, seen |-> seen]

\* flow_manager.rs:73-136: the callback start_flow (Full) and
\* retry_transcription (RetryOnly) give the flow
create_flow_callback(a, f, event) ==
    CASE event.ev = "TranscriptionResult" ->
             [a EXCEPT !.tasks = @ \cup {Task("clear", f, "")},
                       !.flows[f].retry_available = "false"]
      [] event.ev = "Error" ->
             [a EXCEPT !.tasks = @ \cup {Task("check", f, "")}]
      [] event.ev = "AudioDataReady" /\ a.flows[f].mode = "RecordAndTranscribe" ->
             [a EXCEPT !.tasks = @ \cup {Task("store", f, "")}]
      [] OTHER -> a

\* flow.rs:886-888
emit_event(a, f, event) ==
    create_flow_callback([a EXCEPT !.flows[f].trace = Append(@, event)], f, event)

\* set_state that emits the state the flow is leaving
set_state_emitting_old(a, f, new_state) ==
    emit_event([a EXCEPT !.flows[f].state = new_state], f,
               FlowEvent("StateChanged", a.flows[f].state))

\* flow.rs:878-884: only the flow's own task writes its state
set_state(a, f, new_state) ==
    emit_event([a EXCEPT !.flows[f].state = new_state], f,
               FlowEvent("StateChanged", new_state))

\* flow.rs:129-131
cancel(a, f) ==
    [a EXCEPT !.flows[f].cancelled = TRUE,
              !.flows[f].cancel_seen = IF @ = "None" THEN a.flows[f].state ELSE @]

\* dropping a oneshot::Sender that was not used wakes the receiver
DropSender(a, f) ==
    IF f # 0 /\ a.flows[f].stop = "open"
    THEN [a EXCEPT !.flows[f].stop = "dropped"] ELSE a

\* flow_manager.rs:189-195
cancel_flow(a) ==
    LET f == a.manager.current_flow
        a1 == IF f # 0 THEN cancel(a, f) ELSE a
        a2 == DropSender(a1, a.manager.stop_sender)
    IN [a2 EXCEPT !.manager.current_flow = 0, !.manager.stop_sender = 0]

\* flow_manager.rs:197-203
get_state(a) ==
    IF a.manager.current_flow # 0 THEN a.flows[a.manager.current_flow].state
    ELSE "Idle"

\* flow_manager.rs:138-171, with a valid API key
start_flow(a) ==
    LET a1 == cancel_flow(a)
        f == a.manager.created + 1
    IN [a1 EXCEPT !.flows[f] = Flow_new("RecordAndTranscribe", a.manager.rewrite_enabled),
                  !.manager.created = f,
                  !.manager.current_flow = f,
                  !.manager.stop_sender = f]

\* the stop receiver lives in the flow's task until record_audio returns
ReceiverAlive(fl) == fl.pc \in {"spawned", "record_audio", "finishing"}

\* flow_manager.rs:173-187
stop_flow(a) ==
    LET f == a.manager.stop_sender
    IN IF f = 0 THEN [a |-> a, ret |-> "Err"]
       ELSE IF ReceiverAlive(a.flows[f])
       THEN [a |-> [a EXCEPT !.manager.stop_sender = 0, !.flows[f].stop = "sent"],
             ret |-> "Ok"]
       ELSE [a |-> [a EXCEPT !.manager.stop_sender = 0], ret |-> "Err"]

\* flow_manager.rs:205-215
store_audio_data(a, f) == [a EXCEPT !.manager.retry_audio_data = f]

clear_audio_data(a) == [a EXCEPT !.manager.retry_audio_data = 0]

has_retry_data(a) == a.manager.retry_audio_data # 0

\* flow_manager.rs:217-247
retry_transcription(a) ==
    IF ~has_retry_data(a) THEN [a |-> a, ret |-> "Err"]
    ELSE LET a1 == cancel_flow(a)
             f == a.manager.created + 1
         IN [a |-> [a1 EXCEPT !.flows[f] = Flow_new("TranscribeOnly", a.manager.rewrite_enabled),
                              !.manager.created = f,
                              !.manager.current_flow = f],
             ret |-> "Ok"]

\* lib.rs:44-65
start_audio_stream(a) ==
    IF get_state(a) \in {"Idle"} \cup Ended
    THEN [a |-> start_flow(a), ret |-> "Ok"] ELSE [a |-> a, ret |-> "Err"]

\* lib.rs:67-84
stop_audio_stream(a) ==
    IF get_state(a) = "Recording" THEN stop_flow(a) ELSE [a |-> a, ret |-> "Err"]

\* lib.rs:86-96
cancel_transcription(a) == cancel_flow(a)

(***************************************************************************)
(* Flow::run (flow.rs:178-268), one operator per stretch between two       *)
(* points where the task waits.  pc is where the task stands: "spawned",   *)
(* "record_audio" (in the select loop), "finishing" (after the loop,       *)
(* waiting for the processing thread), "check" (TranscribeOnly, before its *)
(* cancellation check), "transcribe_audio", "rewrite_transcribed_text"     *)
(* (each in its select), "done".                                           *)
(***************************************************************************)
At(a, f, pc) == [a EXCEPT !.flows[f].pc = pc]

\* flow.rs:187-193, 235-241: the Err arms of run
Failed(a, f) ==
    At(emit_event(set_state(a, f, "Error"), f, FlowEvent("Error", "")), f, "done")

\* flow.rs:196-201, 221-226: the checks of the cancellation token
Cancelled(a, f) == At(set_state(a, f, "Cancelled"), f, "done")

\* an end of run that reports the result without the Completed state
CompletedSilently(a, f) ==
    At(emit_event(a, f, FlowEvent("TranscriptionResult", "")), f, "done")

\* flow.rs:264-267
Completed(a, f) ==
    At(emit_event(set_state(a, f, "Completed"), f,
                  FlowEvent("TranscriptionResult", "")), f, "done")

\* flow.rs:179-185, 216-219: run up to its first wait
run_begin(a, f) ==
    IF a.flows[f].mode = "RecordAndTranscribe"
    THEN At(set_state(a, f, "Recording"), f, "record_audio")
    ELSE At(set_state(a, f, "Processing"), f, "check")

\* flow.rs:220-227: TranscribeOnly
run_check(a, f) ==
    IF a.flows[f].cancelled THEN Cancelled(a, f) ELSE At(a, f, "transcribe_audio")

\* flow.rs:190-214: record_audio has returned res
run_recorded(a, f, res) ==
    IF res = "Err" THEN Failed(a, f)
    ELSE IF a.flows[f].cancelled THEN Cancelled(a, f)
    ELSE At(emit_event(set_state(a, f, "Processing"), f,
                       FlowEvent("AudioDataReady", "")), f, "transcribe_audio")

\* flow.rs:232-246: transcribe_audio has returned res
run_transcribed(a, f, res) ==
    IF res = "Err" THEN Failed(a, f)
    ELSE IF a.flows[f].rewrite_enabled THEN At(a, f, "rewrite_transcribed_text")
    ELSE Completed(a, f)

\* flow.rs:246-267: whatever rewrite_transcribed_text returned
run_rewritten(a, f, res) == Completed(a, f)

(***************************************************************************)
(* One record_audio call in detail (flow.rs:271-366): the audio thread     *)
(* (flow.rs:449-703), the processing thread (flow.rs:369-446), the         *)
(* unbounded sample channel between them (queue counts its buffers,        *)
(* senders tells whether a Sender is alive), the inner stop channel and    *)
(* the audio-result channel.  The AudioStreamProcessor of the processing   *)
(* thread is taken by its interface: fail_at is the index of its call      *)
(* (new, push_samples.., finalize) that returns an error, 0 for none.      *)
(***************************************************************************)
NoRecording ==
    [flow |-> 0, audio |-> "none", stop_sender |-> "none", result |-> "none",
     senders |-> FALSE, queue |-> 0, captured |-> 0,
     processing |-> "none", fail_at |-> 0, calls |-> 0, pushed |-> 0,
     finalized |-> 0, returned |-> "none"]

\* flow.rs:285-313: the channels are created and both threads spawned; the
\* processing thread's first call is AudioStreamProcessor::new
record_audio_begin(f, proc_fail_at) ==
    [NoRecording EXCEPT !.flow = f, !.audio = "running", !.stop_sender = "open",
                        !.senders = TRUE, !.fail_at = proc_fail_at, !.calls = 1,
                        !.processing = IF proc_fail_at = 1 THEN "Err" ELSE "running"]

\* one call on the processor: its index and whether it fails
ProcessorCall(r) == [r EXCEPT !.calls = @ + 1]
ProcessorFails(r) == r.calls + 1 = r.fail_at

\* flow.rs:404-411: a buffer is received and pushed
processing_recv(r) ==
    IF ProcessorFails(r)
    THEN [ProcessorCall(r) EXCEPT !.queue = @ - 1, !.processing = "Err"]
    ELSE [ProcessorCall(r) EXCEPT !.queue = @ - 1, !.pushed = @ + 1]

\* a processing thread that finalizes on a timeout of the channel
ChannelClosedOnTimeout(r) == r.queue = 0

\* flow.rs:431-436: RecvTimeoutError::Disconnected, the channel is empty and
\* every Sender is gone
ChannelClosed(r) == r.queue = 0 /\ ~r.senders

\* flow.rs:438-446
processing_finalize(r) ==
    IF ProcessorFails(r)
    THEN [ProcessorCall(r) EXCEPT !.processing = "Err"]
    ELSE [ProcessorCall(r) EXCEPT !.processing = "Ok", !.finalized = @ + 1]

\* flow.rs:684-698: the stop signal (or the loss of its sender) ends the
\* audio thread, which drops the stream and with it the sample sender
audio_thread_stop(r) ==
    [r EXCEPT !.audio = "done", !.senders = FALSE, !.result = "Ok"]

\* flow.rs:457-682: the stream cannot be built or played
audio_thread_fail(r) ==
    [r EXCEPT !.audio = "failed", !.senders = FALSE, !.result = "Err"]

\* no flow has been started and nothing is being recorded
AppAtRest ==
    /\ manager = FlowManager_new(FALSE)
    /\ flows = [f \in 1..MaxFlows |-> NoFlow]
    /\ tasks = {}
    /\ rec = NoRecording

\* everything but the native handle: the values right after construction
InitSession ==
    /\ stream \in Streams
    /\ silence_len \in SilenceLens
    /\ fail_at \in 0..MaxFailAt
    /\ encoder = NewEncoder
    /\ writer = NewWriter
    /\ output = [ret |-> "None", webm |-> <<>>]
    /\ pushed = 0
    /\ taken = <<>>
    /\ last = [op |-> "new", ret |-> "Ok", prev |-> "new",
               pre_buffered |-> 0, pre_frames |-> 0, out |-> <<>>]
    /\ hist = NoHist
    /\ ncalls = 0
    /\ proc = AudioStreamProcessor_new(SAMPLE_RATE, SAMPLE_RATE, 480, 0, 0)
    /\ plast = NoCall
    /\ ebml = NewEbml
    /\ lookahead = opus_lookahead
    /\ AppAtRest

\* the state after BufferedOpusEncoder::new returned Ok
Init ==
    /\ InitSession
    /\ native = BufferedOpusEncoder_new(NoHandle, "handle", 0).native

Next ==
    \/ \E n \in PushSizes : EncAddSamples(n)
    \/ EncFinalize
    \/ EncTakeFrames

Spec == Init /\ [][Next]_vars

(***************************************************************************)
(* Life of the stand-alone encoder, from construction to drop.  The owner  *)
(* calls the encoder while it holds it and may drop it at any point;       *)
(* a `?` on an Err return drops it on the way out of the caller.           *)
(***************************************************************************)
LifeNew(outcome, ctl_result) ==
    /\ native.owner = "none"
    /\ native' = BufferedOpusEncoder_new(native, outcome, ctl_result).native
    /\ UNCHANGED <<stream, silence_len, fail_at, encoder, writer, output,
                   pushed, taken, last, hist, ncalls, proc, plast, ebml, lookahead, manager, flows, tasks, rec>>

LifeAddSamples(n) == native.owner = "live" /\ EncAddSamples(n)

LifeFinalize == native.owner = "live" /\ EncFinalize

LifeTakeFrames == native.owner = "live" /\ EncTakeFrames

LifeDrop ==
    /\ native.owner = "live"
    /\ native' = drop(native)
    /\ UNCHANGED <<stream, silence_len, fail_at, encoder, writer, output,
                   pushed, taken, last, hist, ncalls, proc, plast, ebml, lookahead, manager, flows, tasks, rec>>

InitLife == InitSession /\ native = NoHandle

NextLife ==
    \/ \E outcome \in CreateOutcomes, ctl_result \in CtlResults :
          LifeNew(outcome, ctl_result)
    \/ \E n \in PushSizes : LifeAddSamples(n)
    \/ LifeFinalize
    \/ LifeTakeFrames
    \/ LifeDrop

SpecLife == InitLife /\ [][NextLife]_vars

(***************************************************************************)
(* Muxer session: the signal is pushed into a WebmWriter, which is then    *)
(* finalized (finalize consumes the writer).                               *)
(***************************************************************************)
WebmAddSamples(n) ==
    /\ output.ret = "None"
    /\ pushed + n <= MaxWebmFrames * FRAME_SIZE
    /\ LET r == WebmWriter_add_samples(writer, Chunk(stream, pushed, n))
       IN /\ writer' = r.w
          /\ last' = Call("add_samples", r.ret, writer.encoder, <<>>)
          /\ hist' = Count("add_samples", r.ret)
    /\ pushed' = pushed + n
    /\ UNCHANGED <<stream, silence_len, fail_at, encoder, output, taken, ncalls, native, proc, plast, ebml, lookahead, manager, flows, tasks, rec>>

WebmFinalize ==
    /\ output.ret = "None"
    /\ LET r == WebmWriter_finalize(writer)
       IN /\ writer' = r.w
          /\ output' = [ret |-> r.ret, webm |-> r.webm]
          /\ last' = Call("finalize", r.ret, writer.encoder, <<>>)
          /\ hist' = Count("finalize", r.ret)
    /\ UNCHANGED <<stream, silence_len, fail_at, encoder, pushed, taken, ncalls, native, proc, plast, ebml, lookahead, manager, flows, tasks, rec>>

NextWebm ==
    \/ \E n \in WebmPushSizes : WebmAddSamples(n)
    \/ WebmFinalize

SpecWebm == Init /\ [][NextWebm]_vars

(***************************************************************************)
(* Processor session: the signal is pushed into an AudioStreamProcessor,   *)
(* which is then finalized (finalize consumes the processor).              *)
(***************************************************************************)
ProcPushSamples(n) ==
    /\ output.ret = "None"
    /\ pushed + n <= MaxProcSamples
    /\ \E r \in {push_samples([p |-> proc, w |-> writer], Chunk(stream, pushed, n))} :
          /\ proc' = r.s.p
          /\ writer' = r.s.w
          /\ plast' = ProcCall("push_samples", r.ret, r.value, n)
          /\ last' = Call("push_samples", r.ret, writer.encoder, <<>>)
          /\ hist' = Count("push_samples", r.ret)
    /\ pushed' = pushed + n
    /\ UNCHANGED <<stream, silence_len, fail_at, encoder, output, taken, ncalls,
                   native, ebml, lookahead, manager, flows, tasks, rec>>

ProcFinalize ==
    /\ output.ret = "None"
    /\ \E r \in {AudioStreamProcessor_finalize([p |-> proc, w |-> writer])} :
          /\ proc' = r.s.p
          /\ writer' = r.s.w
          /\ output' = [ret |-> r.ret, webm |-> r.webm]
          /\ plast' = ProcCall("finalize", r.ret, 0, 0)
          /\ last' = Call("finalize", r.ret, writer.encoder, <<>>)
          /\ hist' = Count("finalize", r.ret)
    /\ UNCHANGED <<stream, silence_len, fail_at, encoder, pushed, taken, ncalls,
                   native, ebml, lookahead, manager, flows, tasks, rec>>

\* the state after AudioStreamProcessor::new returned Ok
InitProc ==
    /\ stream \in {"tone", "mixed"}
    /\ silence_len = 2
    /\ fail_at \in {0, MaxFailAt}
    /\ encoder = NewEncoder
    /\ writer = NewWriter
    /\ output = [ret |-> "None", webm |-> <<>>]
    /\ pushed = 0
    /\ taken = <<>>
    /\ last = [op |-> "new", ret |-> "Ok", prev |-> "new",
               pre_buffered |-> 0, pre_frames |-> 0, out |-> <<>>]
    /\ hist = NoHist
    /\ ncalls = 0
    /\ native = BufferedOpusEncoder_new(NoHandle, "handle", 0).native
    /\ \E rate \in ProcInputRates, chunk_size \in ProcChunkSizes,
          held \in HeldChoices, rs_fail_at \in ResamplerFailAt :
          proc = AudioStreamProcessor_new(rate, SAMPLE_RATE, chunk_size, held, rs_fail_at)
    /\ plast = NoCall
    /\ ebml = NewEbml
    /\ lookahead = opus_lookahead
    /\ AppAtRest

NextProc ==
    \/ \E n \in ProcPushSizes : ProcPushSamples(n)
    \/ ProcFinalize

SpecProc == InitProc /\ [][NextProc]_vars

(***************************************************************************)
(* push_samples turn by turn: the call is entered, each turn of its while  *)
(* loop is a step, and it returns when the loop condition fails or a turn  *)
(* returns an error.  plast.ret = "Running" while the call is inside its   *)
(* loop and plast.value is its local `processed`.  chunks_processed, a     *)
(* usize in the code, is counted up to MaxTurns, which no session whose    *)
(* calls all leave the loop reaches within the bounds; the events log is   *)
(* not kept.  Chunks and pushes are a few samples long: the loop is        *)
(* driven by the pending length and the chunk size alone.                  *)
(***************************************************************************)
TurnChunkSizes == {0, 2, 3}
TurnPushSizes == {1, 2, 5}

\* stream_processor.rs:94-98
TurnEnter(n) ==
    /\ output.ret = "None"
    /\ plast.ret # "Running"
    /\ pushed + n <= MaxTurnSamples
    /\ proc' = [proc EXCEPT !.samples_received = @ + n,
                            !.input_buffer = @ \o Chunk(stream, pushed, n)]
    /\ plast' = ProcCall("push_samples", "Running", 0, n)
    /\ pushed' = pushed + n
    /\ UNCHANGED <<stream, silence_len, fail_at, encoder, writer, output, taken, ncalls, native, last, hist, ebml, lookahead, manager, flows, tasks, rec>>

\* stream_processor.rs:101-105: one turn of the while loop
TurnChunk ==
    /\ plast.ret = "Running"
    /\ HasFullChunk(proc)
    /\ LET chunk_size == proc.resampler_chunk_size
           chunk == SubSeq(proc.input_buffer, 1, chunk_size)
           s1 == [p |-> [proc EXCEPT !.input_buffer = SubSeq(@, chunk_size + 1, Len(@))],
                  w |-> writer]
       IN \E r \in {process_chunk(s1, chunk)} :
             /\ proc' = [r.s.p EXCEPT !.events = proc.events,
                                      !.chunks_processed = IF @ > MaxTurns THEN MaxTurns ELSE @]
             /\ writer' = r.s.w
             /\ plast' = IF r.ret = "Err"
                         THEN [plast EXCEPT !.ret = "Err", !.value = 0]
                         ELSE [plast EXCEPT !.value = @ + chunk_size]
             /\ hist' = IF r.ret = "Err" THEN Count("push_samples", "Err") ELSE hist
    /\ UNCHANGED <<stream, silence_len, fail_at, encoder, output, pushed, taken, ncalls, native, last, ebml, lookahead, manager, flows, tasks, rec>>

\* stream_processor.rs:101, 107: the loop condition fails, Ok(processed)
TurnReturn ==
    /\ plast.ret = "Running"
    /\ ~HasFullChunk(proc)
    /\ plast' = [plast EXCEPT !.ret = "Ok"]
    /\ hist' = Count("push_samples", "Ok")
    /\ UNCHANGED <<stream, silence_len, fail_at, encoder, writer, output, pushed, taken, ncalls, native, proc, last, ebml, lookahead, manager, flows, tasks, rec>>

\* finalize is called between calls of push_samples, never during one
TurnFinalize == plast.ret # "Running" /\ ProcFinalize

\* the state after AudioStreamProcessor::new returned Ok; a chunk size of 0
\* is taken in bypass mode only, where new constructs no resampler
InitTurn ==
    /\ stream \in {"tone", "mixed"}
    /\ silence_len = 2
    /\ fail_at \in {0, MaxFailAt}
    /\ encoder = NewEncoder
    /\ writer = NewWriter
    /\ output = [ret |-> "None", webm |-> <<>>]
    /\ pushed = 0
    /\ taken = <<>>
    /\ last = [op |-> "new", ret |-> "Ok", prev |-> "new",
               pre_buffered |-> 0, pre_frames |-> 0, out |-> <<>>]
    /\ hist = NoHist
    /\ ncalls = 0
    /\ native = BufferedOpusEncoder_new(NoHandle, "handle", 0).native
    /\ \E rate \in ProcInputRates, chunk_size \in TurnChunkSizes,
          held \in HeldChoices, rs_fail_at \in ResamplerFailAt :
          /\ chunk_size = 0 => rate = SAMPLE_RATE
          /\ proc = AudioStreamProcessor_new(rate, SAMPLE_RATE, chunk_size, held, rs_fail_at)
    /\ plast = NoCall
    /\ ebml = NewEbml
    /\ lookahead = opus_lookahead
    /\ AppAtRest

NextTurn ==
    \/ \E n \in TurnPushSizes : TurnEnter(n)
    \/ TurnChunk
    \/ TurnReturn
    \/ TurnFinalize

\* the loop runs in the calling thread, which keeps executing it
SpecTurn ==
    InitTurn /\ [][NextTurn]_vars /\ WF_vars(TurnChunk) /\ WF_vars(TurnReturn)

(***************************************************************************)
(* The application: commands of the front end, presses of the global       *)
(* shortcut, the tasks they spawn and the flows' own tasks, interleaved in *)
(* any order.  record_audio is taken by its interface here: it returns Ok  *)
(* or Err some time after its select loop was left.                        *)
(***************************************************************************)
App == [manager |-> manager, flows |-> flows, tasks |-> tasks]

Becomes(a) ==
    /\ manager' = a.manager
    /\ flows' = a.flows
    /\ tasks' = a.tasks
    /\ UNCHANGED core_vars

Results == {"Ok", "Err"}

StartAudioStream ==
    /\ manager.created < MaxFlows
    /\ Becomes(start_audio_stream(App).a)
    /\ UNCHANGED rec

StopAudioStream == Becomes(stop_audio_stream(App).a) /\ UNCHANGED rec

CancelTranscription == Becomes(cancel_transcription(App)) /\ UNCHANGED rec

RetryTranscription ==
    /\ manager.created < MaxFlows
    /\ Becomes(retry_transcription(App).a)
    /\ UNCHANGED rec

\* lib.rs:496-502: the handler spawns a task per press
ShortcutPressed ==
    /\ manager.presses < MaxPresses
    /\ Becomes([App EXCEPT !.manager.presses = @ + 1,
                           !.tasks = @ \cup {Task("shortcut", manager.presses + 1, "unread")}])
    /\ UNCHANGED rec

\* lib.rs:503-507: the state is read under the read lock, which is dropped
ShortcutRead(t) ==
    /\ t.kind = "shortcut" /\ t.seen = "unread"
    /\ Becomes([App EXCEPT !.tasks = (@ \ {t}) \cup {Task("shortcut", t.of, get_state(App))}])
    /\ UNCHANGED rec

\* what the handler calls for the state it has read
ShortcutOp(seen) ==
    IF seen = "Recording" THEN "stop_flow"
    ELSE IF seen = "Processing" THEN "cancel_flow" ELSE "start_flow"

\* lib.rs:509-538: the write lock is taken and the manager called
ShortcutAct(t) ==
    /\ t.kind = "shortcut" /\ t.seen # "unread"
    /\ ShortcutOp(t.seen) = "start_flow" => manager.created < MaxFlows
    /\ LET a == [App EXCEPT !.tasks = @ \ {t},
                            !.manager.shortcut = [op |-> ShortcutOp(t.seen), seen |-> t.seen,
                                                  actual |-> get_state(App)]]
       IN Becomes(CASE ShortcutOp(t.seen) = "stop_flow" -> stop_flow(a).a
                    [] ShortcutOp(t.seen) = "cancel_flow" -> cancel_flow(a)
                    [] OTHER -> start_flow(a))
    /\ UNCHANGED rec

\* flow_manager.rs:122-128: the task spawned for AudioDataReady
TaskStore(t) ==
    /\ t.kind = "store"
    /\ Becomes(store_audio_data([App EXCEPT !.tasks = @ \ {t}], t.of))
    /\ UNCHANGED rec

\* flow_manager.rs:97-104: the task spawned for Error
TaskCheck(t) ==
    /\ t.kind = "check"
    /\ Becomes([App EXCEPT !.tasks = @ \ {t},
                           !.flows[t.of].retry_available =
                               IF has_retry_data(App) THEN "true" ELSE "false"])
    /\ UNCHANGED rec

\* flow_manager.rs:83-89: the task spawned for TranscriptionResult
TaskClear(t) ==
    /\ t.kind = "clear"
    /\ Becomes(clear_audio_data([App EXCEPT !.tasks = @ \ {t}]))
    /\ UNCHANGED rec

FlowBegin(f) ==
    /\ flows[f].pc = "spawned"
    /\ Becomes(run_begin(App, f))
    /\ UNCHANGED rec

FlowCheck(f) ==
    /\ flows[f].pc = "check"
    /\ Becomes(run_check(App, f))
    /\ UNCHANGED rec

\* flow.rs:272-274, 335-347: no device, or the audio thread reports an error
FlowRecordFailed(f) ==
    /\ flows[f].pc = "record_audio"
    /\ Becomes(run_recorded(App, f, "Err"))
    /\ UNCHANGED rec

\* flow.rs:328-331: the cancellation arm of the select
FlowRecordCancelled(f) ==
    /\ flows[f].pc = "record_audio"
    /\ flows[f].cancelled
    /\ Becomes(run_recorded(App, f, "Err"))
    /\ UNCHANGED rec

\* flow.rs:321-325: the stop arm of the select, taken when the stop signal
\* was sent and when its sender was dropped
FlowRecordStopped(f) ==
    /\ flows[f].pc = "record_audio"
    /\ flows[f].stop \in {"sent", "dropped"}
    /\ Becomes(At(App, f, "finishing"))
    /\ UNCHANGED rec

\* flow.rs:350-366: the processing thread has returned
FlowRecorded(f, res) ==
    /\ flows[f].pc = "finishing"
    /\ Becomes(run_recorded(App, f, res))
    /\ UNCHANGED rec

\* flow.rs:845-853 and the other returns of transcribe_audio; Err is also
\* what its cancellation arm returns
FlowTranscribed(f, res) ==
    /\ flows[f].pc = "transcribe_audio"
    /\ Becomes(run_transcribed(App, f, res))
    /\ UNCHANGED rec

\* flow.rs:742-750 and the other returns of rewrite_transcribed_text
FlowRewritten(f, res) ==
    /\ flows[f].pc = "rewrite_transcribed_text"
    /\ Becomes(run_rewritten(App, f, res))
    /\ UNCHANGED rec

InitApp ==
    /\ stream = "tone" /\ silence_len = 2 /\ fail_at = 0
    /\ encoder = NewEncoder
    /\ writer = NewWriter
    /\ output = [ret |-> "None", webm |-> <<>>]
    /\ pushed = 0
    /\ taken = <<>>
    /\ last = [op |-> "new", ret |-> "Ok", prev |-> "new",
               pre_buffered |-> 0, pre_frames |-> 0, out |-> <<>>]
    /\ hist = NoHist
    /\ ncalls = 0
    /\ native = BufferedOpusEncoder_new(NoHandle, "handle", 0).native
    /\ proc = AudioStreamProcessor_new(SAMPLE_RATE, SAMPLE_RATE, 480, 0, 0)
    /\ plast = NoCall
    /\ ebml = NewEbml
    /\ lookahead = opus_lookahead
    /\ \E rewrite_enabled \in BOOLEAN : manager = FlowManager_new(rewrite_enabled)
    /\ flows = [f \in 1..MaxFlows |-> NoFlow]
    /\ tasks = {}
    /\ rec = NoRecording

FlowTask(f) ==
    \/ FlowBegin(f)
    \/ FlowCheck(f)
    \/ FlowRecordFailed(f)
    \/ FlowRecordCancelled(f)
    \/ FlowRecordStopped(f)
    \/ \E res \in Results : FlowRecorded(f, res)
    \/ \E res \in Results : FlowTranscribed(f, res)
    \/ \E res \in Results : FlowRewritten(f, res)

NextFlow ==
    \/ StartAudioStream
    \/ StopAudioStream
    \/ CancelTranscription
    \/ RetryTranscription
    \/ ShortcutPressed
    \/ \E t \in tasks : ShortcutRead(t) \/ ShortcutAct(t)
    \/ \E t \in tasks : TaskStore(t) \/ TaskCheck(t) \/ TaskClear(t)
    \/ \E f \in 1..MaxFlows : FlowTask(f)

SpecFlow == InitApp /\ [][NextFlow]_vars

(***************************************************************************)
(* One recording in detail: a single flow is started, the front end may    *)
(* stop it, nobody cancels it.  The steps of record_audio's task, of the   *)
(* audio thread and of the processing thread interleave; a recv_timeout    *)
(* that times out changes nothing and is a stuttering step.  The arm of    *)
(* the select for an audio thread that finished without error is never     *)
(* taken: that thread only finishes after the inner stop signal, which is  *)
(* sent on the way out of the loop.  The scheduler is fair to the three    *)
(* threads, not to the user or to the audio device.                        *)
(***************************************************************************)
\* the flow that the first start_flow creates
RecFlow == FlowManager_new(FALSE).created + 1

\* the calls the processing thread can make: new, a push per buffer, finalize
ProcessorCalls == 1..(MaxBuffers + 2)

RecBecomes(a, r) == Becomes(a) /\ rec' = r

RecOnly(r) == rec' = r /\ UNCHANGED <<core_vars, manager, flows, tasks>>

RecStart ==
    /\ manager.created = 0
    /\ StartAudioStream

RecBegin ==
    /\ flows[RecFlow].pc = "spawned"
    /\ RecBecomes(run_begin(App, RecFlow), rec)

\* flow.rs:276-313: the input device is found and the threads are spawned
RecOpen(proc_fail_at) ==
    /\ flows[RecFlow].pc = "record_audio" /\ rec.flow = 0
    /\ RecBecomes(App, record_audio_begin(RecFlow, proc_fail_at))

\* flow.rs:276-277: no input device, or no usable configuration
RecNoDevice ==
    /\ flows[RecFlow].pc = "record_audio" /\ rec.flow = 0
    /\ RecBecomes(run_recorded(App, RecFlow, "Err"),
                  [rec EXCEPT !.flow = RecFlow, !.returned = "Err"])

\* flow.rs:498-543: the stream's callback sends a buffer
RecCallback ==
    /\ rec.audio = "running" /\ rec.captured < MaxBuffers
    /\ RecOnly([rec EXCEPT !.captured = @ + 1, !.queue = @ + 1])

RecAudioFail ==
    /\ rec.audio = "running" /\ rec.captured = 0
    /\ RecOnly(audio_thread_fail(rec))

RecAudioStop ==
    /\ rec.audio = "running" /\ rec.stop_sender \in {"sent", "dropped"}
    /\ RecOnly(audio_thread_stop(rec))

\* flow.rs:321-326: the stop arm sends the inner stop signal and leaves the loop
RecSelectStop ==
    /\ flows[RecFlow].pc = "record_audio" /\ rec.flow = RecFlow
    /\ flows[RecFlow].stop \in {"sent", "dropped"}
    /\ RecBecomes(At(App, RecFlow, "finishing"), [rec EXCEPT !.stop_sender = "sent"])

\* flow.rs:335-347: the audio thread reported an error; record_audio returns
\* it and drops the inner stop sender
RecSelectResult ==
    /\ flows[RecFlow].pc = "record_audio" /\ rec.flow = RecFlow
    /\ rec.result = "Err"
    /\ RecBecomes(run_recorded(App, RecFlow, "Err"),
                  [rec EXCEPT !.stop_sender = "dropped", !.returned = "Err"])

RecProcRecv ==
    /\ rec.processing = "running" /\ rec.queue > 0
    /\ RecOnly(processing_recv(rec))

RecProcDisconnected ==
    /\ rec.processing = "running" /\ ChannelClosed(rec)
    /\ RecOnly(processing_finalize(rec))

\* flow.rs:352-367: the processing thread is joined and its result returned
RecReturn ==
    /\ flows[RecFlow].pc = "finishing"
    /\ rec.processing \in Results
    /\ RecBecomes(run_recorded(App, RecFlow, rec.processing),
                  [rec EXCEPT !.returned = rec.processing])

NextRec ==
    \/ RecStart
    \/ StopAudioStream
    \/ RecBegin
    \/ \E proc_fail_at \in {0} \cup ProcessorCalls : RecOpen(proc_fail_at)
    \/ RecNoDevice
    \/ RecCallback
    \/ RecAudioFail
    \/ RecAudioStop
    \/ RecSelectStop
    \/ RecSelectResult
    \/ RecProcRecv
    \/ RecProcDisconnected
    \/ RecReturn

RecFairness ==
    /\ WF_vars(RecBegin)
    /\ WF_vars(\E proc_fail_at \in {0} \cup ProcessorCalls : RecOpen(proc_fail_at))
    /\ WF_vars(RecAudioStop)
    /\ WF_vars(RecSelectStop)
    /\ WF_vars(RecSelectResult)
    /\ WF_vars(RecProcRecv)
    /\ WF_vars(RecProcDisconnected)
    /\ WF_vars(RecReturn)

SpecRec == InitApp /\ [][NextRec]_vars /\ RecFairness

(***************************************************************************)
(* Short writer session with a codec whose OPUS_GET_LOOKAHEAD answer is    *)
(* any of Lookaheads: as far as the interface goes it is an i32.           *)
(***************************************************************************)
Lookaheads == {120, opus_lookahead, 65536 + opus_lookahead}

HeadAddSamples(n) ==
    /\ pushed + n <= MaxHeadFrames * FRAME_SIZE
    /\ WebmAddSamples(n)

\* the state after WebmWriter::new returned Ok
InitHead ==
    /\ stream \in Streams
    /\ silence_len \in SilenceLens
    /\ fail_at \in 0..MaxFailAt
    /\ encoder = NewEncoder
    /\ writer = NewWriter
    /\ output = [ret |-> "None", webm |-> <<>>]
    /\ pushed = 0
    /\ taken = <<>>
    /\ last = [op |-> "new", ret |-> "Ok", prev |-> "new",
               pre_buffered |-> 0, pre_frames |-> 0, out |-> <<>>]
    /\ hist = NoHist
    /\ ncalls = 0
    /\ native = BufferedOpusEncoder_new(NoHandle, "handle", 0).native
    /\ proc = AudioStreamProcessor_new(SAMPLE_RATE, SAMPLE_RATE, 480, 0, 0)
    /\ plast = NoCall
    /\ ebml = NewEbml
    /\ lookahead \in Lookaheads
    /\ AppAtRest

NextHead ==
    \/ \E n \in WebmPushSizes : HeadAddSamples(n)
    \/ WebmFinalize

SpecHead == InitHead /\ [][NextHead]_vars

(***************************************************************************)
(* One second at 24 kHz: a processor set up 24000 -> 48000 Hz with chunk   *)
(* size 960 is given digital silence and then finalized.                   *)
(***************************************************************************)
E2EPushSizes == {2400, 4800, MaxE2ESamples}

E2EPushSamples(n) ==
    /\ output.ret = "None"
    /\ pushed + n <= MaxE2ESamples
    /\ \E r \in {push_samples([p |-> proc, w |-> writer], Chunk(stream, pushed, n))} :
          /\ proc' = r.s.p
          /\ writer' = r.s.w
          /\ plast' = ProcCall("push_samples", r.ret, r.value, n)
          /\ last' = Call("push_samples", r.ret, writer.encoder, <<>>)
          /\ hist' = Count("push_samples", r.ret)
    /\ pushed' = pushed + n
    /\ UNCHANGED <<stream, silence_len, fail_at, encoder, output, taken, ncalls, native, ebml, lookahead, manager, flows, tasks, rec>>

\* the state after AudioStreamProcessor::new(24000, 48000, 64000, 960)
\* returned Ok
InitE2E ==
    /\ stream = "silence"
    /\ silence_len \in SilenceLens
    /\ fail_at = 0
    /\ encoder = NewEncoder
    /\ writer = NewWriter
    /\ output = [ret |-> "None", webm |-> <<>>]
    /\ pushed = 0
    /\ taken = <<>>
    /\ last = [op |-> "new", ret |-> "Ok", prev |-> "new",
               pre_buffered |-> 0, pre_frames |-> 0, out |-> <<>>]
    /\ hist = NoHist
    /\ ncalls = 0
    /\ native = BufferedOpusEncoder_new(NoHandle, "handle", 0).native
    /\ \E held \in HeldChoices :
          proc = AudioStreamProcessor_new(24000, SAMPLE_RATE, FRAME_SIZE, held, 0)
    /\ plast = NoCall
    /\ ebml = NewEbml
    /\ lookahead = opus_lookahead
    /\ AppAtRest

NextE2E ==
    \/ \E n \in E2EPushSizes : E2EPushSamples(n)
    \/ ProcFinalize

SpecE2E == InitE2E /\ [][NextE2E]_vars

(***************************************************************************)
(* The session of test_encode_irregular_chunks and of the example: pushes  *)
(* of a non-silent signal into a new encoder, nothing else.                *)
(***************************************************************************)
TestPushSizes == {300, 480, 500, 700, 1920}

TestAddSamples(n) ==
    /\ ncalls < MaxTestCalls
    /\ ncalls' = ncalls + 1
    /\ \E r \in {add_samples(encoder, Chunk(stream, pushed, n))} :
          /\ encoder' = r.enc
          /\ last' = Call("add_samples", r.ret, encoder, <<>>)
          /\ hist' = Count("add_samples", r.ret)
    /\ pushed' = pushed + n
    /\ UNCHANGED <<stream, silence_len, fail_at, writer, output, taken, native, proc, plast, ebml, lookahead, manager, flows, tasks, rec>>

\* the state after BufferedOpusEncoder::new returned Ok, with a codec that
\* does not fail
InitTest ==
    /\ stream = "tone"
    /\ silence_len \in SilenceLens
    /\ fail_at = 0
    /\ encoder = NewEncoder
    /\ writer = NewWriter
    /\ output = [ret |-> "None", webm |-> <<>>]
    /\ pushed = 0
    /\ taken = <<>>
    /\ last = [op |-> "new", ret |-> "Ok", prev |-> "new",
               pre_buffered |-> 0, pre_frames |-> 0, out |-> <<>>]
    /\ hist = NoHist
    /\ ncalls = 0
    /\ native = BufferedOpusEncoder_new(NoHandle, "handle", 0).native
    /\ proc = AudioStreamProcessor_new(SAMPLE_RATE, SAMPLE_RATE, 480, 0, 0)
    /\ plast = NoCall
    /\ ebml = NewEbml
    /\ lookahead = opus_lookahead
    /\ AppAtRest

NextTest == \E n \in TestPushSizes : TestAddSamples(n)

SpecTest == InitTest /\ [][NextTest]_vars

(***************************************************************************)
(* Builder session actions                                                 *)
(***************************************************************************)
EbmlVint(val, disallow_all_ones) ==
    /\ ebml.calls < MaxEbmlCalls
    /\ ebml.last.ret = "Ok"
    /\ \E r \in {vint(ebml.data, val, disallow_all_ones)} :
          ebml' = [data |-> r.data, calls |-> ebml.calls + 1,
                   last |-> EbmlCall("vint", val, disallow_all_ones, <<>>, ebml.data, r.ret)]
    /\ UNCHANGED <<stream, silence_len, fail_at, encoder, writer, output, pushed, taken, last, hist, ncalls, native, proc, plast, lookahead, manager, flows, tasks, rec>>

EbmlSize(val) ==
    /\ ebml.calls < MaxEbmlCalls
    /\ ebml.last.ret = "Ok"
    /\ \E r \in {size(ebml.data, val)} :
          ebml' = [data |-> r.data, calls |-> ebml.calls + 1,
                   last |-> EbmlCall("size", val, TRUE, <<>>, ebml.data, r.ret)]
    /\ UNCHANGED <<stream, silence_len, fail_at, encoder, writer, output, pushed, taken, last, hist, ncalls, native, proc, plast, lookahead, manager, flows, tasks, rec>>

EbmlPayload(child) ==
    /\ ebml.calls < MaxEbmlCalls
    /\ ebml.last.ret = "Ok"
    /\ \E r \in {payload(ebml.data, child)} :
          ebml' = [data |-> r.data, calls |-> ebml.calls + 1,
                   last |-> EbmlCall("payload", FromInt(Len(child)), TRUE, <<child>>, ebml.data, r.ret)]
    /\ UNCHANGED <<stream, silence_len, fail_at, encoder, writer, output, pushed, taken, last, hist, ncalls, native, proc, plast, lookahead, manager, flows, tasks, rec>>

EbmlPayloadMultiple(children) ==
    /\ ebml.calls < MaxEbmlCalls
    /\ ebml.last.ret = "Ok"
    /\ \E r \in {payload_multiple(ebml.data, children)} :
          ebml' = [data |-> r.data, calls |-> ebml.calls + 1,
                   last |-> EbmlCall("payload_multiple", FromInt(TotalSize(children)), TRUE, children, ebml.data, r.ret)]
    /\ UNCHANGED <<stream, silence_len, fail_at, encoder, writer, output, pushed, taken, last, hist, ncalls, native, proc, plast, lookahead, manager, flows, tasks, rec>>

\* the state after EbmlBuilder::new()
InitEbml ==
    /\ stream = "tone"
    /\ silence_len = 3
    /\ fail_at = 0
    /\ encoder = NewEncoder
    /\ writer = NewWriter
    /\ output = [ret |-> "None", webm |-> <<>>]
    /\ pushed = 0
    /\ taken = <<>>
    /\ last = [op |-> "new", ret |-> "Ok", prev |-> "new",
               pre_buffered |-> 0, pre_frames |-> 0, out |-> <<>>]
    /\ hist = NoHist
    /\ ncalls = 0
    /\ native = BufferedOpusEncoder_new(NoHandle, "handle", 0).native
    /\ proc = AudioStreamProcessor_new(SAMPLE_RATE, SAMPLE_RATE, 480, 0, 0)
    /\ plast = NoCall
    /\ ebml = NewEbml
    /\ lookahead = opus_lookahead
    /\ AppAtRest

NextEbml ==
    \/ \E val \in VintValues, disallow_all_ones \in BOOLEAN : EbmlVint(val, disallow_all_ones)
    \/ \E val \in VintValues : EbmlSize(val)
    \/ \E child \in Children : EbmlPayload(child)
    \/ \E children \in ChildLists : EbmlPayloadMultiple(children)

SpecEbml == InitEbml /\ [][NextEbml]_vars

(***************************************************************************)
(* Properties of the stand-alone encoder (checked under Spec)              *)
(***************************************************************************)
\* the frames the codec returned that are longer than 2 bytes, in call order
RECURSIVE StoredPackets(_)
StoredPackets(log) ==
    IF log = <<>> THEN <<>>
    ELSE LET h == Head(log)
         IN (IF h.encoded_len > 2
             THEN <<[len |-> h.encoded_len, first |-> h.first, last |-> h.last]>>
             ELSE <<>>) \o StoredPackets(Tail(log))

\* every opus_encode call so far returned a frame longer than 2 bytes
AllLong(log) == \A i \in 1..Len(log) : log[i].encoded_len > 2

\* no call was issued after a call had returned Err (the caller discarded
\* the session, as the failure contract asks)
Disciplined == ~hist.after_err

\* C1 as stated: after every call to add_samples or finalize returns, whatever
\* it returns, fewer than 960 samples are buffered.
C1_BufferedBelowFrameAfterAnyReturn ==
    last.op \in {"add_samples", "finalize"}
        => buffered_samples(encoder) < FRAME_SIZE

\* C1 amended: after every call to add_samples or finalize that returns Ok,
\* buffered_samples() is strictly less than 960.
C1_BufferedBelowFrameAfterOk ==
    (last.op \in {"add_samples", "finalize"} /\ last.ret = "Ok")
        => buffered_samples(encoder) < FRAME_SIZE

\* C1 witness: an add_samples call returned Ok after encoding at least two
\* frames and left a partial frame buffered.
C1_Witness ==
    /\ last.op = "add_samples" /\ last.ret = "Ok"
    /\ Len(encoder.codec_log) >= 2
    /\ buffered_samples(encoder) > 0

C3_SplitIndependent ==
    (hist.finals = 0 /\ Disciplined)
        => LET one == add_samples(NewEncoder, Chunk(stream, 0, pushed)).enc
           IN /\ encoder.codec_log = one.codec_log
              /\ taken \o encoder.encoded_frames = one.encoded_frames
              /\ encoder.sample_buffer = one.sample_buffer

\* C3 witness: three pushes, the second completing a frame started by the first
\* and the third adding a frame of its own, with a partial frame left over.
C3_Witness ==
    /\ hist.finals = 0 /\ hist.takes = 0 /\ Disciplined
    /\ ncalls = 3
    /\ Len(encoder.codec_log) >= 2
    /\ last.pre_buffered > 0
    /\ buffered_samples(encoder) > 0

\* C4: no frame of 2 bytes or less is ever in the ready-frame queue (nor was
\* ever returned from it).
C4_NoShortFrameQueued ==
    /\ \A i \in 1..Len(encoder.encoded_frames) : encoder.encoded_frames[i].len > 2
    /\ \A i \in 1..Len(taken) : taken[i].len > 2

\* C4 witness: finalize padded a partial frame, the codec returned 2 bytes or
\* less for it and for a frame of add_samples, and finalize returned Ok.
C4_Witness ==
    /\ last.op = "finalize" /\ last.ret = "Ok"
    /\ last.pre_buffered > 0 /\ last.pre_buffered < FRAME_SIZE
    /\ Len(encoder.codec_log) >= 4
    /\ encoder.codec_log[Len(encoder.codec_log) - 2].encoded_len \in {1, 2}
    /\ encoder.codec_log[1].encoded_len \in {1, 2}

\* the encode results of the last three opus_encode calls
LastThree(log) == {log[i].encoded_len : i \in (Len(log) - 2)..Len(log)}
LastThreeLong(log) == Cardinality({i \in (Len(log) - 2)..Len(log) : log[i].encoded_len > 2})

\* finalize ran on an encoder holding a partial frame and no ready frames
FinalizedPartial ==
    /\ last.op = "finalize" /\ last.ret = "Ok"
    /\ last.pre_buffered > 0 /\ last.pre_buffered < FRAME_SIZE
    /\ last.pre_frames = 0

C6_TakeFramesDrains ==
    /\ taken \o encoder.encoded_frames = StoredPackets(encoder.codec_log)
    /\ last.op = "take_frames"
           => /\ frame_count(encoder) = 0
              /\ Len(last.out) = last.pre_frames
    /\ (last.op = "take_frames" /\ last.prev = "take_frames")
           => last.out = <<>>

\* C6 witness: a take_frames that returned frames, directly followed by another.
C6_Witness ==
    /\ last.op = "take_frames" /\ last.prev = "take_frames"
    /\ taken # <<>>

(***************************************************************************)
(* Properties of the muxer (checked under SpecWebm)                        *)
(***************************************************************************)
\* the writer is alive and finalize has not been called
Open == output.ret = "None"

\* every block of the session so far, in write order
RECURSIVE ClusterBlocks(_)
ClusterBlocks(clusters) ==
    IF clusters = <<>> THEN <<>>
    ELSE Head(clusters).blocks \o ClusterBlocks(Tail(clusters))

AllBlocks(w) == ClusterBlocks(w.completed_clusters) \o w.current_cluster_blocks.blocks

\* elapsed time in the open cluster
Elapsed(w) == w.current_timestamp_ms - w.cluster_start_timestamp_ms

\* C7: after any sequence of add_samples calls on the writer (none failing),
\* current_timestamp_ms is 20 ms times the number of frames the encoder has
\* consumed, dropped frames included.
C7_TimestampCountsConsumedFrames ==
    (Open /\ hist.errs = 0)
        => writer.current_timestamp_ms
               = FRAME_DURATION_MS * Len(writer.encoder.codec_log)

\* C8: every relative timestamp written into a block fits the signed 16-bit
\* range, so that the two bytes written hold it unchanged; it never exceeds the
\* cluster duration less one frame, the cluster being closed before.
C8_RelativeTimestampFitsI16 ==
    LET blocks == AllBlocks(writer)
    IN \A i \in 1..Len(blocks) :
          /\ blocks[i].rel_ms >= -32768 /\ blocks[i].rel_ms <= 32767
          /\ blocks[i].timestamp_offset = blocks[i].rel_ms
          /\ blocks[i].rel_ms >= 0
          /\ blocks[i].rel_ms <= CLUSTER_DURATION_MS - FRAME_DURATION_MS

\* C8 witness: a session of more than two seconds, finalized, whose last block
\* sits in a third cluster.
C8_Witness ==
    /\ output.ret = "Ok"
    /\ cluster_count(writer) >= 3
    /\ Len(AllBlocks(writer)) > 100

\* the effect of write_opus_frame on writer w, for an arbitrary frame
Written(w) == WriteOpusFrame(w, [len |-> 160, first |-> 1, last |-> 1])

\* C9: in every reachable writer state, a write_opus_frame that brings the
\* elapsed time of the open cluster to 1000 ms appends that cluster (with the
\* block just written) to completed_clusters and opens an empty cluster whose
\* start is current_timestamp_ms, and one that does not leaves the clusters
\* alone; after every call the elapsed time in the open cluster is < 1000 ms.
C9_ClusterSealedAtThreshold ==
    /\ Elapsed(writer) >= 0
    /\ Elapsed(writer) < CLUSTER_DURATION_MS
    /\ writer.current_cluster_blocks.timestamp = writer.cluster_start_timestamp_ms
    /\ LET w2 == Written(writer)
       IN IF Elapsed(writer) + FRAME_DURATION_MS >= CLUSTER_DURATION_MS
          THEN /\ Len(w2.completed_clusters) = Len(writer.completed_clusters) + 1
               /\ SubSeq(w2.completed_clusters, 1, Len(writer.completed_clusters))
                      = writer.completed_clusters
               /\ LET sealed == w2.completed_clusters[Len(w2.completed_clusters)]
                  IN /\ sealed.timestamp = writer.cluster_start_timestamp_ms
                     /\ Len(sealed.blocks)
                            = Len(writer.current_cluster_blocks.blocks) + 1
               /\ w2.cluster_start_timestamp_ms = w2.current_timestamp_ms
               /\ w2.current_cluster_blocks = InitCluster(w2.current_timestamp_ms)
          ELSE /\ w2.completed_clusters = writer.completed_clusters
               /\ w2.cluster_start_timestamp_ms = writer.cluster_start_timestamp_ms

\* C9 witness: an add_samples call returned after sealing a cluster in its
\* middle: blocks were written to the new open cluster.
C9_Witness ==
    /\ Open /\ last.op = "add_samples" /\ last.ret = "Ok"
    /\ cluster_count(writer) = 1
    /\ writer.cluster_start_timestamp_ms = CLUSTER_DURATION_MS
    /\ Len(writer.current_cluster_blocks.blocks) > 1

\* C10: after add_samples calls (none failing) totalling at least 48000
\* samples and no finalize, cluster_count() >= 1.
C10_OneSecondSealsACluster ==
    (Open /\ hist.errs = 0 /\ pushed >= SAMPLE_RATE)
        => cluster_count(writer) >= 1

\* C11: finalize seals the open cluster exactly when it holds a block: in the
\* finalize output every block written during the session is present, no block
\* is left in the open cluster, and no cluster of the output (or of
\* completed_clusters at any time) has zero blocks.
C11_FinalizeSealsNonEmptyOnly ==
    /\ \A i \in 1..Len(writer.completed_clusters) :
          writer.completed_clusters[i].blocks # <<>>
    /\ output.ret = "Ok"
           => /\ writer.current_cluster_blocks.blocks = <<>>
              /\ ClusterBlocks(output.webm.clusters) = AllBlocks(writer)
              /\ \A i \in 1..Len(output.webm.clusters) :
                    output.webm.clusters[i].blocks # <<>>

\* C11 witness: the last block written sealed a cluster at the 1000 ms
\* boundary, finalize added no block (its flush frames were dropped) and
\* returned the file with the open cluster left out.
C11_Witness ==
    /\ output.ret = "Ok"
    /\ last.pre_buffered = 0
    /\ cluster_count(writer) >= 1
    /\ writer.cluster_start_timestamp_ms = writer.current_timestamp_ms
    /\ Len(output.webm.clusters) = cluster_count(writer)
    /\ Len(AllBlocks(writer)) = 50 * cluster_count(writer)

\* the payloads of a sequence of blocks
BlockData(blocks) == [i \in 1..Len(blocks) |-> blocks[i].data]

IsPrefix(s, t) == Len(s) <= Len(t) /\ SubSeq(t, 1, Len(s)) = s

\* the blocks written so far, then the frames waiting in the encoder's ready
\* queue, are the frames the encoder enqueued, once each and in encode order
C12_BlocksAreEncodedFrames ==
    /\ BlockData(AllBlocks(writer)) \o writer.encoder.encoded_frames
           = StoredPackets(writer.encoder.codec_log)
    /\ output.ret = "Ok"
           => BlockData(ClusterBlocks(output.webm.clusters))
                  = StoredPackets(writer.encoder.codec_log)

\* C12: the blocks of the finalize output are exactly the frames taken from the
\* encoder during the session, once each and in encode order, and every step
\* leaves the previous completed_clusters as a prefix of the new one.
C12_OutputIsTakenFramesAppendOnly ==
    /\ []C12_BlocksAreEncodedFrames
    /\ [][IsPrefix(writer.completed_clusters, writer'.completed_clusters)]_vars

\* C12 witness: a finalized session of more than one cluster in which the
\* encoder dropped frames and kept others.
C12_Witness ==
    /\ output.ret = "Ok"
    /\ cluster_count(writer) >= 2
    /\ Len(ClusterBlocks(output.webm.clusters)) > 50
    /\ Len(ClusterBlocks(output.webm.clusters)) < Len(writer.encoder.codec_log) - 2
    /\ hist.errs = 0

\* what add_samples and finalize would answer on writer value w
RejectsCalls(w) ==
    /\ \A n \in WebmPushSizes :
          WebmWriter_add_samples(w, Chunk(stream, pushed, n))
              = [w |-> w, ret |-> "Err", err |-> "WebmError"]
    /\ WebmWriter_finalize(w)
           = [w |-> w, ret |-> "Err", err |-> "WebmError", webm |-> <<>>]

C14_FinalizedEncoderIsTerminal ==
    [][(hist.finals >= 1 /\ hist.errs = 0)
          => /\ encoder'.codec_log = encoder.codec_log
             /\ frame_count(encoder') <= frame_count(encoder)]_vars

(***************************************************************************)
(* Encode errors inside add_samples (checked under SpecWebm)               *)
(***************************************************************************)
\* the step is an add_samples call on the writer that returned an encode error
FailedAddSamples == last'.op = "add_samples" /\ last'.ret = "Err"

\* C15: an add_samples call in which opus_encode fails on the k-th complete
\* frame returns the error with exactly k frames removed from the sample
\* queue and handed to the codec, the k-th being the failing and last one; the
\* frames among 1..k-1 that were stored follow the earlier ones in the
\* encoder's ready queue, the samples behind frame k stay queued, and the
\* muxer's clusters, timestamps and counters are untouched.
C15_EncodeErrorKeepsCompletedPortion ==
    [][FailedAddSamples
          => LET e == writer.encoder
                 e2 == writer'.encoder
                 buf == e.sample_buffer \o Chunk(stream, pushed, pushed' - pushed)
                 k == Len(e2.codec_log) - Len(e.codec_log)
                 log == SubSeq(e2.codec_log, Len(e.codec_log) + 1, Len(e2.codec_log))
             IN /\ k >= 1 /\ FRAME_SIZE * k <= Len(buf)
                /\ SubSeq(e2.codec_log, 1, Len(e.codec_log)) = e.codec_log
                /\ \A i \in 1..k :
                      /\ log[i].first = buf[FRAME_SIZE * (i - 1) + 1]
                      /\ log[i].last = buf[FRAME_SIZE * i]
                      /\ log[i].encoded_len < 0 <=> i = k
                /\ e2.encoded_frames
                       = e.encoded_frames \o StoredPackets(SubSeq(log, 1, k - 1))
                /\ e2.sample_buffer = SubSeq(buf, FRAME_SIZE * k + 1, Len(buf))
                /\ writer' = [writer EXCEPT !.encoder = e2]
                /\ output' = output]_vars

\* C15 witness: the encode of the second frame of one add_samples call failed;
\* the first frame waits un-muxed in the ready queue and the frames behind the
\* second are still queued as samples.
C15_Witness ==
    /\ last.op = "add_samples" /\ last.ret = "Err"
    /\ last.pre_buffered = 0 /\ Len(writer.encoder.codec_log) = 2
    /\ frame_count(writer.encoder) = 1
    /\ AllBlocks(writer) = <<>>
    /\ buffered_samples(writer.encoder) >= 2 * FRAME_SIZE

(***************************************************************************)
(* Native handle (checked under SpecLife)                                  *)
(***************************************************************************)
\* C16: a handle is destroyed at most once and only after it was created;
\* while the encoder value is alive its handle exists and is not destroyed;
\* once new has failed or the value was dropped, every handle that was
\* created has been destroyed exactly once.
C16_HandleDestroyedExactlyOnce ==
    /\ native.destroyed <= native.created
    /\ native.created <= 1
    /\ native.owner = "none" => native.created = 0
    /\ native.owner = "live"
           => native.created = 1 /\ native.destroyed = 0 /\ native.encoder = "handle"
    /\ native.owner \in {"failed", "dropped"}
           => native.destroyed = native.created
    /\ native.owner = "dropped" => native.created = 1

\* C16 witness: the encoder was dropped after an add_samples call returned an
\* encode error, and its handle was destroyed.
C16_Witness ==
    /\ native.owner = "dropped" /\ native.destroyed = 1
    /\ last.op = "add_samples" /\ last.ret = "Err"

(***************************************************************************)
(* Properties of the streaming processor (checked under SpecProc)          *)
(***************************************************************************)
Bypass == ~proc.resampler.present

\* C17: a push_samples call that returns a count returns
\* chunk_size * floor((pending_before + len(samples)) / chunk_size), a multiple
\* of chunk_size, which is the number of samples it removed from the pending
\* buffer, and leaves fewer than chunk_size samples pending.
C17_PushReturnsWholeChunks ==
    (plast.op = "push_samples" /\ plast.ret = "Ok")
        => LET chunk_size == proc.resampler_chunk_size
           IN /\ plast.value = chunk_size * ((plast.pre_pending + plast.len) \div chunk_size)
              /\ plast.value % chunk_size = 0
              /\ Len(proc.input_buffer) = plast.pre_pending + plast.len - plast.value
              /\ Len(proc.input_buffer) < chunk_size

\* C17 witness: a push onto a non-empty pending buffer removed two chunks and
\* left a remainder.
C17_Witness ==
    /\ plast.op = "push_samples" /\ plast.ret = "Ok"
    /\ plast.pre_pending > 0
    /\ plast.value = 2 * proc.resampler_chunk_size
    /\ Len(proc.input_buffer) > 0

\* C18: in bypass mode (input_rate = target_rate), after any sequence of
\* push_samples calls followed by finalize, samples_resampled equals
\* samples_received, which is the number of samples pushed.
C18_BypassCountsEveryFinalizedSample ==
    (Bypass /\ plast.op = "finalize")
        => /\ proc.samples_resampled = proc.samples_received
           /\ proc.samples_received = pushed

\* C18 witness: a bypass session of at least two chunks and a sub-chunk
\* remainder, finalized.
C18_Witness ==
    /\ Bypass /\ plast.op = "finalize" /\ plast.ret = "Ok"
    /\ plast.pre_pending > 0
    /\ proc.chunks_processed >= 3
    /\ proc.samples_resampled > 2 * proc.resampler_chunk_size

\* what a bypass session of n samples asks of the muxer: a whole chunk n \div
\* size times, the remainder if there is one, then finalize
BypassEvents(n, chunk_size) ==
    [i \in 1..(n \div chunk_size) |-> [ev |-> "forward", n |-> chunk_size]]
        \o (IF n % chunk_size > 0 THEN <<[ev |-> "forward", n |-> n % chunk_size]>> ELSE <<>>)
        \o <<[ev |-> "webm_finalize", n |-> 0]>>

\* the muxer fed directly: one add_samples_f32 call with all samples, then
\* finalize
FedDirectly(samples) ==
    WebmWriter_finalize(WebmWriter_add_samples_f32(NewWriter, samples).w)

\* C19: in bypass mode the slices given to the muxer, followed by what is
\* still pending, are at all times the samples pushed so far, and the
\* resampler is never called; a session finalized without error gave the
\* muxer the whole chunks, then the sub-chunk remainder, then finalize, all
\* pushed samples in order, and returns the file of a muxer fed directly.
C19_BypassFeedsMuxerDirectly ==
    Bypass
        => /\ proc.resampler.calls = 0
           /\ \A i \in 1..Len(proc.events) :
                 proc.events[i].ev \in {"forward", "webm_finalize"}
           /\ Open => proc.forwarded \o proc.input_buffer = Chunk(stream, 0, pushed)
           /\ (output.ret = "Ok" /\ hist.errs = 0)
                  => /\ proc.forwarded = Chunk(stream, 0, pushed)
                     /\ proc.events = BypassEvents(pushed, proc.resampler_chunk_size)
                     /\ output.webm = FedDirectly(Chunk(stream, 0, pushed)).webm
                     /\ writer = FedDirectly(Chunk(stream, 0, pushed)).w

\* C19 witness: a finalized bypass session of whole chunks and a remainder
\* whose file holds blocks.
C19_Witness ==
    /\ Bypass /\ output.ret = "Ok" /\ hist.errs = 0
    /\ plast.pre_pending > 0
    /\ Len(proc.events) >= 4
    /\ Len(AllBlocks(writer)) >= 1

\* what finalize asked of the resampler and the muxer, in order
FinalizeEvents == SubSeq(proc.events, plast.pre_events + 1, Len(proc.events))

\* the no-input resampler calls of finalize that returned samples
NonEmptyFlushes ==
    Cardinality({i \in 1..Len(FinalizeEvents) :
                    FinalizeEvents[i].ev = "flush" /\ FinalizeEvents[i].n > 0})

\* k drain calls with a result, each followed by its forward
RECURSIVE FlushPairs(_, _)
FlushPairs(k, n) ==
    IF k = 0 THEN <<>>
    ELSE <<[ev |-> "flush", n |-> n], [ev |-> "forward", n |-> n]>>
             \o FlushPairs(k - 1, n)

\* C20: a finalize in resampling mode that returns Ok has, in this order, run
\* the pending remainder (if there is one) through the resampler's partial
\* mode and forwarded the result, issued at most 4 no-input resampler calls,
\* forwarding each non-empty result and stopping at the first empty one, and
\* then called the muxer's finalize, once, as its last step.
C20_FinalizeDrainsThenFinalizesMuxer ==
    (~Bypass /\ plast.op = "finalize" /\ plast.ret = "Ok")
        => LET k == NonEmptyFlushes
               out == (plast.pre_pending * proc.resampler.num) \div proc.resampler.den
           IN /\ k <= FLUSH_CALLS
              /\ FinalizeEvents
                   = (IF plast.pre_pending > 0
                      THEN <<[ev |-> "process_partial", n |-> plast.pre_pending],
                             [ev |-> "forward", n |-> out]>>
                      ELSE <<>>)
                     \o FlushPairs(k, proc.resampler.num)
                     \o (IF k < FLUSH_CALLS THEN <<[ev |-> "flush", n |-> 0]>> ELSE <<>>)
                     \o <<[ev |-> "webm_finalize", n |-> 0]>>
              /\ \A i \in 1..plast.pre_events : proc.events[i].ev # "webm_finalize"
              /\ output.ret = "Ok"

\* C20 witness: finalize resampled a pending remainder, got samples from two
\* drain calls and nothing from the third, and returned the file.
C20_Witness ==
    /\ ~Bypass /\ plast.op = "finalize" /\ plast.ret = "Ok"
    /\ plast.pre_pending > 0
    /\ NonEmptyFlushes = 2
    /\ proc.chunks_processed >= 2

(***************************************************************************)
(* Properties of the EbmlBuilder (checked under SpecEbml)                  *)
(***************************************************************************)
\* the bytes the last call appended
Appended == SubSeq(ebml.data, Len(ebml.last.prev) + 1, Len(ebml.data))

VintShift == IF ebml.last.flag THEN 1 ELSE 0

\* val < 2^56 - shift: the value has an 8-byte form
InRange(val, shift) == Lt64(val, Sub64(Shl1(56), shift))

\* the smallest width w in 1..8 with val < 2^(7w) - shift
MinWidth(val, shift) ==
    CHOOSE w \in 1..8 :
        /\ Lt64(val, Sub64(Shl1(7 * w), shift))
        /\ \A u \in 1..(w - 1) : ~Lt64(val, Sub64(Shl1(7 * u), shift))

\* the width a reader takes from the first byte: leading zero bits, plus one
VintLength(first) == CHOOSE w \in 1..8 : first \div 2^(8 - w) = 1

\* what a reader decodes from a vint: the marker bit is cleared and the rest
\* is read as a big-endian number
DecodeVint(bs) ==
    LET w == VintLength(bs[1])
        b == [i \in 1..8 |-> IF i < 9 - w THEN 0
                             ELSE IF i = 9 - w THEN bs[1] - 2^(8 - w)
                             ELSE bs[i - (8 - w)]]
    IN  U64(b[1] * 256 + b[2],
            b[3] * 65536 + b[4] * 256 + b[5],
            b[6] * 65536 + b[7] * 256 + b[8])

\* C23: for every value v < 2^56 - shift, vint (and size, which is vint with
\* shift 1) returns after appending exactly w bytes, w the smallest width in
\* 1..8 with v < 2^(7w) - shift; the first byte has w - 1 leading zero bits
\* and then the marker bit, and decoding the appended bytes gives v back.
\* size(126) is FE and size(127) is 40 7F.
C23_VintIsMinimalWidthBigEndian ==
    (ebml.last.op \in {"vint", "size"} /\ InRange(ebml.last.val, VintShift))
        => LET w == MinWidth(ebml.last.val, VintShift)
           IN /\ ebml.last.ret = "Ok"
              /\ IsPrefix(ebml.last.prev, ebml.data)
              /\ Len(Appended) = w
              /\ Appended[1] \div 2^(8 - w) = 1
              /\ DecodeVint(Appended) = ebml.last.val
              /\ (ebml.last.op = "size" /\ ebml.last.val = FromInt(126)) => Appended = <<254>>
              /\ (ebml.last.op = "size" /\ ebml.last.val = FromInt(127)) => Appended = <<64, 127>>

\* C23 witness: a vint of the largest value that has an 8-byte form was
\* appended to a builder that already held bytes.
C23_Witness ==
    /\ ebml.last.op = "vint" /\ ~ebml.last.flag
    /\ ebml.last.val = Sub64(Shl1(56), 1)
    /\ ebml.last.prev # <<>>
    /\ Len(Appended) = 8
    /\ DecodeVint(Appended) = ebml.last.val

\* the size field of the last call: what it appended, less the children
SizeField == SubSeq(Appended, 1, Len(Appended) - TotalSize(ebml.last.children))

\* the reserved unknown-size pattern of width w: FF, 7F FF, 3F FF FF, ...
UnknownSize(w) == [i \in 1..w |-> IF i = 1 THEN 2^(9 - w) - 1 ELSE 255]

\* C24: whenever size returns, the size field it wrote (also on behalf of
\* payload and payload_multiple) is not the unknown-size pattern of any of
\* the 8 widths.
C24_SizeNeverAllOnes ==
    (ebml.last.op \in {"size", "payload", "payload_multiple"} /\ ebml.last.ret = "Ok")
        => \A w \in 1..8 : SizeField # UnknownSize(w)

\* C24 witness: size was given 2^49 - 1, whose 7-byte form would be the
\* all-ones pattern, and wrote 8 bytes.
C24_Witness ==
    /\ ebml.last.op = "size" /\ ebml.last.ret = "Ok"
    /\ ebml.last.val = Sub64(Shl1(49), 1)
    /\ Len(SizeField) = 8

\* C25: payload appends size(len(child)) and then the child's bytes;
\* payload_multiple appends what payload appends for one child holding the
\* children's concatenation, its size field giving the sum of the children's
\* lengths; the bytes already in the parent stay in front, unchanged.
C25_PayloadIsSizeThenChildren ==
    /\ ebml.last.op = "payload"
        => /\ ebml.last.ret = "Ok"
           /\ IsPrefix(ebml.last.prev, ebml.data)
           /\ DecodeVint(SizeField) = FromInt(Len(ebml.last.children[1]))
           /\ Appended = size(<<>>, FromInt(Len(ebml.last.children[1]))).data \o ebml.last.children[1]
    /\ ebml.last.op = "payload_multiple"
        => /\ ebml.last.ret = "Ok"
           /\ IsPrefix(ebml.last.prev, ebml.data)
           /\ DecodeVint(SizeField) = FromInt(TotalSize(ebml.last.children))
           /\ ebml.data = payload(ebml.last.prev, AllBytes(ebml.last.children)).data

\* C25 witness: two children of 126 and 127 bytes were written by
\* payload_multiple, behind a 2-byte size, into a parent that held bytes.
C25_Witness ==
    /\ ebml.last.op = "payload_multiple" /\ ebml.last.ret = "Ok"
    /\ ebml.last.prev # <<>>
    /\ Len(ebml.last.children) = 2
    /\ Len(ebml.last.children[1]) = MaxChildLen - 1
    /\ Len(ebml.last.children[2]) = MaxChildLen
    /\ Len(SizeField) = 2

\* C28: vint (and size) given a value v >= 2^56 - shift panics: it returns
\* nothing and the builder holds the bytes it held before the call.
C28_VintOverflowPanics ==
    (ebml.last.op \in {"vint", "size"} /\ ~InRange(ebml.last.val, VintShift))
        => /\ ebml.last.ret = "panic"
           /\ ebml.data = ebml.last.prev

\* C28 witness: size was given 2^56 - 1 on a builder holding bytes, and
\* panicked.
C28_Witness ==
    /\ ebml.last.op = "size"
    /\ ebml.last.val = Sub64(Shl1(56), 1)
    /\ ebml.last.ret = "panic"
    /\ ebml.last.prev # <<>>

(***************************************************************************)
(* Properties of the file (checked under SpecWebm)                         *)
(***************************************************************************)
\* a size below 2^31 as a number
ToInt(v) == v.mid * 2^24 + v.lo

\* the element that starts at position pos of bs and has an id of idlen
\* bytes: its id, its payload and the position behind it
ReadElement(bs, pos, idlen) ==
    LET w == VintLength(bs[pos + idlen])
        n == ToInt(DecodeVint(SubSeq(bs, pos + idlen, pos + idlen + w - 1)))
        from == pos + idlen + w
    IN  [id |-> SubSeq(bs, pos, pos + idlen - 1),
         payload |-> SubSeq(bs, from, from + n - 1),
         next |-> from + n]

\* the elements that lie one behind the other in bs; the leading zero bits
\* of an id give its length, as for a vint
RECURSIVE ReadElements(_, _)
ReadElements(bs, pos) ==
    IF pos > Len(bs) THEN <<>>
    ELSE Eval(ReadElement(bs, pos, VintLength(bs[pos])), LAMBDA e : <<[id |-> e.id, payload |-> e.payload]>> \o ReadElements(bs, e.next))

\* C21: a finalize that returns Ok returns bytes that begin with 1A 45 DF A3,
\* the id of the EBML header element; behind that element lies one Segment
\* element that ends the file, and its payload is the Info element, then the
\* Tracks element, then the completed clusters, each a Cluster element
\* holding that cluster's timestamp and blocks, in the order of completion.
C21_FileIsHeaderThenSegment ==
    output.ret = "Ok"
        => Eval(build_webm_file(output.webm), LAMBDA file :
             /\ SubSeq(file, 1, 4) = <<\h1A, \h45, \hDF, \hA3>>
             /\ Eval(ReadElement(file, 1, 4), LAMBDA header :
                  /\ header.payload = build_ebml_header
                  /\ Eval(ReadElement(file, header.next, 4), LAMBDA segment :
                       /\ segment.id = <<\h18, \h53, \h80, \h67>>
                       /\ segment.next = Len(file) + 1
                       /\ Eval(ReadElements(segment.payload, 1), LAMBDA els :
                            /\ Len(els) = 2 + Len(writer.completed_clusters)
                            /\ els[1].id = <<\h15, \h49, \hA9, \h66>>
                            /\ els[2].id = <<\h16, \h54, \hAE, \h6B>>
                            /\ \A k \in 1..Len(writer.completed_clusters) :
                                 /\ els[2 + k].id = <<\h1F, \h43, \hB6, \h75>>
                                 /\ els[2 + k].payload = ClusterBuffer(writer.completed_clusters[k])))))

\* C21 witness: finalize returned a file with three clusters.
C21_Witness ==
    /\ output.ret = "Ok"
    /\ Len(writer.completed_clusters) = 3
    /\ Len(build_webm_file(output.webm)) > 2 * 50 * 160

(***************************************************************************)
(* The codec-private block (checked under SpecHead)                        *)
(***************************************************************************)
\* the payload of the first element of els that has the given id
Child(els, id) == els[CHOOSE i \in 1..Len(els) : els[i].id = id /\ \A j \in 1..(i - 1) : els[j].id # id].payload

\* the CodecPrivate payload of the file's only track
CodecPrivateOf(file) ==
    LET segment == ReadElement(file, ReadElement(file, 1, 4).next, 4).payload
        tracks == Child(ReadElements(segment, 1), <<\h16, \h54, \hAE, \h6B>>)
        track_entry == Child(ReadElements(tracks, 1), <<\hAE>>)
    IN  Child(ReadElements(track_entry, 1), <<\h63, \hA2>>)

\* C22: the codec-private block of a file that finalize returned is a
\* 19-byte OpusHead whose pre-skip field, bytes 10 and 11 read as a
\* little-endian number, is the value get_preskip() returns in that session,
\* whatever value the codec reports, 16 bits wide or wider.
C22_OpusHeadCarriesPreskip ==
    output.ret = "Ok"
        => Eval(CodecPrivateOf(build_webm_file(output.webm)), LAMBDA head :
             /\ Len(head) = 19
             /\ SubSeq(head, 1, 8) = <<79, 112, 117, 115, 72, 101, 97, 100>>
             /\ head[11] + 256 * head[12] = get_preskip(writer.encoder))

\* C22 as the program has it: the pre-skip field holds the low 16 bits of
\* the value get_preskip() returns (finalize casts the i32 to u16), which is
\* the value itself whenever that is in 0..65535.
C22_OpusHeadCarriesLow16Bits ==
    output.ret = "Ok"
        => Eval(CodecPrivateOf(build_webm_file(output.webm)), LAMBDA head :
             /\ Len(head) = 19
             /\ SubSeq(head, 1, 8) = <<79, 112, 117, 115, 72, 101, 97, 100>>
             /\ head[11] + 256 * head[12] = get_preskip(writer.encoder) % 65536
             /\ get_preskip(writer.encoder) < 65536
                  => head[11] + 256 * head[12] = get_preskip(writer.encoder))

\* C22 witness: the codec reported 65536 + 312 and finalize returned a file
\* whose pre-skip field reads 312.
C22_Witness ==
    /\ output.ret = "Ok"
    /\ get_preskip(writer.encoder) = 65536 + opus_lookahead
    /\ Eval(CodecPrivateOf(build_webm_file(output.webm)), LAMBDA head :
           head[11] + 256 * head[12] = opus_lookahead)

(***************************************************************************)
(* One second of silence end to end (checked under SpecE2E)                *)
(***************************************************************************)
\* the whole second was pushed and the processor finalized
OneSecondDone == plast.op = "finalize" /\ pushed = MaxE2ESamples

RECURSIVE FileBlocks(_)
FileBlocks(clusters) ==
    IF clusters = <<>> THEN 0 ELSE Len(Head(clusters).blocks) + FileBlocks(Tail(clusters))

\* what a player gets out of the file: 20 ms per block
DecodableMs == FRAME_DURATION_MS * FileBlocks(output.webm.clusters)

\* C26: a processor set up 24000 -> 48000 Hz with chunk size 960 that was
\* given 24,000 samples of silence and then finalized returns a non-empty
\* buffer that begins with 1A 45 DF A3 and holds 1000 ms of audio, give or
\* take one 20 ms frame.
C26_OneSecondOfSilence ==
    OneSecondDone
        => /\ output.ret = "Ok"
           /\ Eval(build_webm_file(output.webm), LAMBDA file :
                /\ file # <<>>
                /\ SubSeq(file, 1, 4) = <<\h1A, \h45, \hDF, \hA3>>)
           /\ DecodableMs >= 1000 - FRAME_DURATION_MS
           /\ DecodableMs <= 1000 + FRAME_DURATION_MS

\* C26 as the program has it: the buffer is non-empty and begins with
\* 1A 45 DF A3; the muxer was given at least 48,000 samples; the Duration of
\* the file is 20 ms for each of its blocks; with a codec that answers a
\* silent frame with more than 2 bytes there is one block per 960 samples
\* given to the muxer (the last one padded) and two more from the encoder's
\* flush, 1040 ms or more, and with a codec that answers silence with 2
\* bytes or fewer every frame is dropped and the file holds no audio.
C26_OneSecondOfSilenceIsFlushedOrDropped ==
    OneSecondDone
        => /\ output.ret = "Ok"
           /\ Eval(build_webm_file(output.webm), LAMBDA file :
                /\ file # <<>>
                /\ SubSeq(file, 1, 4) = <<\h1A, \h45, \hDF, \hA3>>)
           /\ proc.samples_resampled >= 2 * MaxE2ESamples
           /\ output.webm.info.duration_ms = DecodableMs
           /\ silence_len > 2
                => /\ FileBlocks(output.webm.clusters) = (proc.samples_resampled + FRAME_SIZE - 1) \div FRAME_SIZE + 2
                   /\ DecodableMs >= 1000 + 2 * FRAME_DURATION_MS
           /\ silence_len <= 2 => DecodableMs = 0

\* C26 witness: the second of silence went in, the resampler held nothing
\* back, the codec answered with 3-byte frames and the file holds 1040 ms.
C26_Witness ==
    /\ OneSecondDone /\ output.ret = "Ok"
    /\ silence_len = 3
    /\ proc.samples_resampled = 2 * MaxE2ESamples
    /\ DecodableMs = 1040

C29_ReadyQueueEmptyAfterAddSamples ==
    (last.op \in {"add_samples", "push_samples"} /\ last.ret = "Ok")
        => /\ frame_count(writer.encoder) = 0
           /\ BlockData(AllBlocks(writer)) = StoredPackets(writer.encoder.codec_log)

\* C29 witness: an add_samples call that found samples buffered returned Ok
\* after its frames were written on both sides of a cluster boundary.
C29_Witness ==
    /\ last.op = "add_samples" /\ last.ret = "Ok"
    /\ last.pre_buffered > 0
    /\ cluster_count(writer) = 1
    /\ Len(writer.current_cluster_blocks.blocks) >= 2
    /\ Len(writer.current_cluster_blocks.blocks) < 10
    /\ frame_count(writer.encoder) = 0

\* the payload of the Duration element of an Info section
DurationOf(info) == Child(ReadElements(ReadElement(info, 1, 4).payload, 1), <<\h44, \h89>>)

\* in every state of the writer the two counters are 20 ms and 960 samples
\* per block written, the open cluster starts no later than now, and the
\* Duration of a finalize output is the final current_timestamp_ms
C30_CountersCountBlocks ==
    /\ writer.current_timestamp_ms = FRAME_DURATION_MS * Len(AllBlocks(writer))
    /\ writer.total_samples_encoded = FRAME_SIZE * Len(AllBlocks(writer))
    /\ writer.cluster_start_timestamp_ms <= writer.current_timestamp_ms
    /\ output.ret = "Ok"
           => /\ output.webm.info.duration_ms = writer.current_timestamp_ms
              /\ DurationOf(build_segment_info(output.webm.info.duration_ms))
                     = ValueBytes(F64Bits(writer.current_timestamp_ms), 8)

\* C30: in every reachable writer state current_timestamp_ms is 20 times and
\* total_samples_encoded 960 times the number of blocks written, no step
\* decreases either counter, cluster_start_timestamp_ms is at most
\* current_timestamp_ms, and the Duration written at finalize equals the
\* final current_timestamp_ms.
C30_CountersTrackBlocksAndNeverDecrease ==
    /\ []C30_CountersCountBlocks
    /\ [][/\ writer'.current_timestamp_ms >= writer.current_timestamp_ms
          /\ writer'.total_samples_encoded >= writer.total_samples_encoded]_vars

\* C30 witness: finalize returned a file of more than two seconds from a
\* session in which the encoder had dropped frames.
C30_Witness ==
    /\ output.ret = "Ok"
    /\ writer.current_timestamp_ms > 2 * CLUSTER_DURATION_MS
    /\ output.webm.info.duration_ms = writer.current_timestamp_ms
    /\ Len(writer.encoder.codec_log) > Len(AllBlocks(writer))

(***************************************************************************)
(* Absolute block times (checked under SpecWebm)                           *)
(***************************************************************************)
\* the clusters of the session in order, the open one last
AllClusters(w) == w.completed_clusters \o <<w.current_cluster_blocks>>

\* the number of blocks written before cluster i was opened
BlocksBefore(cs, i) == Len(ClusterBlocks(SubSeq(cs, 1, i - 1)))

\* the number of blocks a cluster holds when write_opus_frame seals it
BLOCKS_PER_CLUSTER == CLUSTER_DURATION_MS \div FRAME_DURATION_MS

\* C31: the k-th block written in a session (k from 0) has absolute time
\* (its cluster's Timestamp plus its relative offset) 20*k ms: the first
\* cluster's Timestamp is 0, every later cluster's Timestamp is the global
\* timestamp at the moment the previous cluster was sealed, cluster Timestamps
\* are strictly increasing, and every cluster sealed before finalize holds
\* exactly 50 blocks.
C31_BlockTimesAreTwentyMsApart ==
    LET cs == AllClusters(writer)
    IN /\ cs[1].timestamp = 0
       /\ \A i \in 2..Len(cs) :
             /\ cs[i].timestamp = FRAME_DURATION_MS * BlocksBefore(cs, i)
             /\ cs[i].timestamp > cs[i - 1].timestamp
       /\ \A i \in 1..Len(cs) : \A j \in 1..Len(cs[i].blocks) :
             cs[i].timestamp + cs[i].blocks[j].timestamp_offset
                 = FRAME_DURATION_MS * (BlocksBefore(cs, i) + j - 1)
       /\ \A i \in 1..Len(writer.completed_clusters) :
             (Open \/ i < Len(writer.completed_clusters))
                 => Len(writer.completed_clusters[i].blocks) = BLOCKS_PER_CLUSTER
       /\ output.ret = "Ok" => output.webm.clusters = writer.completed_clusters

\* C31 witness: a finalized session of three clusters, the first two sealed
\* by write_opus_frame and the third, shorter one by finalize.
C31_Witness ==
    /\ output.ret = "Ok"
    /\ cluster_count(writer) = 3
    /\ Len(writer.completed_clusters[3].blocks) < BLOCKS_PER_CLUSTER
    /\ writer.completed_clusters[3].timestamp = 2 * CLUSTER_DURATION_MS
    /\ Len(writer.encoder.codec_log) > Len(AllBlocks(writer))

(***************************************************************************)
(* Sample accounting of the processor (checked under SpecProc)             *)
(***************************************************************************)
\* stream_processor.rs:257-266: the counters stats() reports
stats(p) ==
    [samples_received |-> p.samples_received,
     samples_resampled |-> p.samples_resampled,
     chunks_processed |-> p.chunks_processed,
     buffer_fill |-> Len(p.input_buffer),
     buffer_capacity |-> p.resampler_chunk_size]

\* every sample received is in one processed chunk or still pending
Accounted(st) ==
    st.samples_received = st.chunks_processed * st.buffer_capacity + st.buffer_fill

\* C32 as stated: before finalize, after every push_samples call that returns
\* Ok, samples_received = chunks_processed * chunk_size + buffer_fill.
C32_EverySampleAccounted ==
    (Open /\ plast.op = "push_samples" /\ plast.ret = "Ok") => Accounted(stats(proc))

\* C32: before finalize, after every push_samples call that returns Ok and
\* that no failed call preceded, samples_received = chunks_processed *
\* chunk_size + buffer_fill; a call that returns Err has removed a chunk from
\* the pending buffer without counting it as processed.
C32_EverySampleAccountedUntilAnError ==
    /\ (Open /\ plast.op = "push_samples" /\ plast.ret = "Ok" /\ hist.errs = 0)
           => Accounted(stats(proc))
    /\ (Open /\ plast.op = "push_samples" /\ plast.ret = "Err" /\ hist.errs = 1)
           => stats(proc).samples_received
                  = (stats(proc).chunks_processed + 1) * stats(proc).buffer_capacity
                        + stats(proc).buffer_fill

\* C32 witness: a push onto a non-empty pending buffer processed two chunks
\* and left a remainder pending, no call having failed.
C32_Witness ==
    /\ Open /\ plast.op = "push_samples" /\ plast.ret = "Ok" /\ hist.errs = 0
    /\ plast.pre_pending > 0
    /\ proc.chunks_processed >= 3
    /\ Len(proc.input_buffer) > 0
    /\ Accounted(stats(proc))

(***************************************************************************)
(* Termination of push_samples (checked under SpecTurn)                    *)
(***************************************************************************)
\* C33: every push_samples call on a processor that new constructed returns,
\* including on a bypass-mode processor with resampler_chunk_size = 0.
C33_PushSamplesTerminates == (plast.ret = "Running") ~> (plast.ret # "Running")

\* a call on a processor with a non-zero chunk size returns
C33_PushSamplesTerminatesForNonZeroChunk ==
    (plast.ret = "Running" /\ proc.resampler_chunk_size > 0) ~> (plast.ret # "Running")

(***************************************************************************)
(* Properties of the recording workflow (checked under SpecFlow)           *)
(***************************************************************************)
Created == 1..manager.created

Recording == {f \in Created : flows[f].state = "Recording"}

\* the events of a kind in a flow's trace
EventsOf(f, ev) == SelectSeq(flows[f].trace, LAMBDA e : e.ev = ev)

\* C34: for any interleaving of start_audio_stream commands, shortcut presses
\* and flow tasks, at most one Flow is in state Recording at any time, and a
\* flow replaced by start_flow never enters Recording after its replacement
\* has been created.
C34_AtMostOneFlowRecording ==
    /\ Cardinality(Recording) <= 1
    /\ \A f \in Created :
          (flows[f].state = "Recording" /\ f < manager.created)
              => flows[f].cancel_seen # "Idle"

\* C35: when cancel() is called on a running flow (state Recording or
\* Processing), the flow ends in state Cancelled, not Error, and no
\* FlowEvent::Error is emitted for it.
C35_CancelledFlowEndsCancelled ==
    \A f \in Created :
        flows[f].cancel_seen \in {"Recording", "Processing"}
            => /\ flows[f].pc = "done" => flows[f].state = "Cancelled"
               /\ flows[f].state # "Error"
               /\ EventsOf(f, "Error") = <<>>

\* C36: once cancel() has been called on a flow, that flow never afterwards
\* enters state Completed and never emits FlowEvent::TranscriptionResult.
C36_CancelledFlowNeverCompletes ==
    \A f \in Created :
        flows[f].cancel_seen \in {"Idle", "Recording", "Processing"}
            => /\ flows[f].state # "Completed"
               /\ EventsOf(f, "TranscriptionResult") = <<>>

\* the states a flow has stored, in order
StatesStored(f) ==
    LET changes == EventsOf(f, "StateChanged")
    IN <<"Idle">> \o [i \in 1..Len(changes) |-> changes[i].state]

\* the moves of a flow's state that run makes
Moves(mode) ==
    IF mode = "TranscribeOnly"
    THEN {<<"Idle", "Processing">>, <<"Processing", "Completed">>,
          <<"Processing", "Error">>, <<"Processing", "Cancelled">>}
    ELSE {<<"Idle", "Recording">>, <<"Recording", "Processing">>,
          <<"Processing", "Completed">>, <<"Recording", "Error">>,
          <<"Recording", "Cancelled">>, <<"Processing", "Error">>,
          <<"Processing", "Cancelled">>}

\* C37: a Flow's state only moves along Idle -> Recording -> Processing ->
\* Completed (Idle -> Processing -> Completed in TranscribeOnly mode), with
\* exits to Error or Cancelled only from Recording or Processing; Completed,
\* Error and Cancelled are terminal, and every StateChanged event carries the
\* state just stored.
C37_FlowStateMachine ==
    \A f \in Created :
        LET path == StatesStored(f)
        IN /\ flows[f].state = path[Len(path)]
           /\ \A i \in 1..(Len(path) - 1) :
                 /\ <<path[i], path[i + 1]>> \in Moves(flows[f].mode)
                 /\ path[i] \notin Ended
           /\ flows[f].pc = "done" <=> flows[f].state \in Ended

\* C37 witness: a recording flow went through Recording and Processing to
\* Error, its audio was kept, and the retry flow went from Idle through
\* Processing to Completed.
C37_Witness ==
    /\ manager.created = 2
    /\ StatesStored(1) = <<"Idle", "Recording", "Processing", "Error">>
    /\ flows[2].mode = "TranscribeOnly"
    /\ StatesStored(2) = <<"Idle", "Processing", "Completed">>
    /\ flows[2].state = "Completed"

\* C39: if a RecordAndTranscribe flow recorded successfully (AudioDataReady
\* emitted) and its transcription then fails, the 'retry-available' event
\* emitted for that error carries true.
C39_RetryAvailableAfterFailedTranscription ==
    \A f \in Created :
        (/\ flows[f].mode = "RecordAndTranscribe"
         /\ EventsOf(f, "AudioDataReady") # <<>>
         /\ flows[f].state = "Error"
         /\ flows[f].retry_available # "none")
            => flows[f].retry_available = "true"

\* C40: the shortcut handler acts on the state it tested: at the moment it
\* holds the write lock, stop_flow is invoked only while the current flow is
\* Recording, cancel_flow only while it is Processing, and start_flow only
\* while it is Idle, Completed, Error or Cancelled.
C40_ShortcutActsOnTheStateItRead ==
    /\ manager.shortcut.op = "stop_flow" => manager.shortcut.actual = "Recording"
    /\ manager.shortcut.op = "cancel_flow" => manager.shortcut.actual = "Processing"
    /\ manager.shortcut.op = "start_flow"
           => manager.shortcut.actual \in {"Idle"} \cup Ended

(***************************************************************************)
(* Properties of one recording (checked under SpecRec)                     *)
(***************************************************************************)
\* stop_flow has delivered the stop signal to the recording flow
StopDelivered == flows[RecFlow].stop = "sent"

\* every Sender is gone and the processing thread has pushed every buffer
\* sent and finalized once
AllPushedAndFinalized ==
    /\ ~rec.senders
    /\ rec.queue = 0 /\ rec.pushed = rec.captured
    /\ rec.finalized = 1

ReturnedFile ==
    /\ rec.returned = "Ok"
    /\ AllPushedAndFinalized
    /\ flows[RecFlow].state # "Recording"

ReturnedError ==
    /\ rec.returned = "Err"
    /\ flows[RecFlow].state = "Error"

\* C38: after stop_flow delivers the stop signal to a Recording flow,
\* record_audio eventually returns the finalized WebM bytes: the audio thread
\* drops the stream and every sender, the processing thread observes the
\* disconnection, pushes every queued sample, finalizes exactly once, and the
\* flow leaves Recording.
C38_StoppedRecordingReturnsTheFile ==
    StopDelivered ~> (ReturnedFile /\ rec.audio = "done")

\* C38 as it holds: after the stop signal is delivered record_audio
\* eventually returns and the flow leaves Recording.  It returns the file,
\* finalized once after every Sender was dropped and every buffer sent was
\* pushed, unless the input device, the audio thread (seen before the stop
\* signal) or the processor reported an error, which it returns instead.
\* The processor is never finalized twice.
C38_StoppedRecordingReturns ==
    /\ [](rec.finalized <= 1)
    /\ StopDelivered ~> (ReturnedFile \/ ReturnedError)

\* C38 witness: a stopped recording returned the file after every buffer the
\* callback sent was pushed and the processor finalized.
C38_Witness ==
    /\ StopDelivered
    /\ ReturnedFile
    /\ rec.audio = "done"
    /\ rec.captured = MaxBuffers
    /\ flows[RecFlow].state = "Processing"

====
